---------------------------- MODULE Spec2Model ----------------------------
(***************************************************************************)
(* A model of the monitoring engine of instaf (src/src/services/monitor.js,*)
(* class MonitorService).  Node runs the service on one thread: the code   *)
(* between two awaits is one atomic step, and every await (a database      *)
(* call, a network call, a timer) is a point where the other asynchronous  *)
(* chains (the three interval loops, the add and remove commands) may run. *)
(* Each action below is one such atomic step.                              *)
(*                                                                         *)
(* The engine is checked under eleven specifications:                       *)
(*   SpecRate     the rate limiter (_rateLimitedRequest) under a clock,    *)
(*   SpecSched    the scheduler: start(), stop(), timers and cycles,       *)
(*   Spec         the story/post ledger under the loops and /remove,       *)
(*   SpecAdd      the story/post ledger under /add and /remove,            *)
(*   SpecProfile  the profile checks (checkSingleAccount) with the post    *)
(*                checks they start,                                       *)
(*   SpecPosts    the post loop next to the post checks of profile checks, *)
(*   SpecDetect   the change detector (_detectChanges) on pairs of         *)
(*                snapshots,                                               *)
(*   SpecAdds     /add commands of several chats running side by side,     *)
(*   SpecHealth   the process (main, Bot) around the scheduler, with the   *)
(*                health query,                                            *)
(*   SpecPersist  the profile checks over a store whose save may reject,   *)
(*   SpecThrottle the five-minute throttle of _checkNewPosts in front of   *)
(*                the rate limiter, under the limiter's clock.             *)
(***************************************************************************)
EXTENDS Integers, Sequences, FiniteSets, Bags, TLC

NULL == "null"

(***************************************************************************)
(* The variables.                                                          *)
(***************************************************************************)
VARIABLES
    \* ---- rate limiter (SpecRate) ----
    clock,              \* Date.now(), in units of 10 s
    _lastRequestTime,   \* this._lastRequestTime
    rlPc,               \* per caller: position inside _rateLimitedRequest
    rlWake,             \* per caller: when its _delay timer is due
    grants,             \* the moments at which fn() was invoked, in order
    external            \* history: the fetches the poll loops and the add
                        \* command have issued to the provider, each with the
                        \* number of the grant that invoked it, or 0

rateVars == <<clock, _lastRequestTime, rlPc, rlWake, grants, external>>

VARIABLES
    \* ---- scheduler (SpecSched) ----
    isRunning,          \* this.isRunning
    isInitializing,     \* this.isInitializing
    intervalId,         \* this.intervalId: the profile timer's handle, or NoTimer
    storyIntervalId,    \* this.storyIntervalId
    postIntervalId,     \* this.postIntervalId
    timers,             \* the live interval timers: handle -> loop, or "none"
    storeReachable,     \* whether MonitoredUser.distinct succeeds
    startPc,            \* per start() invocation: where it is waiting
    cycles,             \* the cycles in progress (checkAllAccounts, checkStories,
                        \* checkPosts), each with its place in its account list
    stopReturned,       \* history: stop() returned and start() was not called since
    checksBegunAfterStop \* history: loops that began an identity's check while
                        \* stopped (stopReturned, and isRunning false)

schedVars == <<isRunning, isInitializing, intervalId, storyIntervalId,
               postIntervalId, timers, storeReachable, startPc, cycles,
               stopReturned, checksBegunAfterStop>>

VARIABLES
    \* ---- story/post ledger (Spec) ----
    now,                \* Date.now(), in whole hours
    monitoredUsers,     \* collection MonitoredUser: (username, chatId) pairs
    activeStory,        \* per identity: the story the provider serves, or NULL
    feed,               \* per identity: the posts the provider serves
    storyHistory,       \* collection StoryHistory
    postHistory,        \* collection PostHistory
    followerHistory,    \* collection FollowerHistory: per identity, its
                        \* snapshots in the order of their createdAt
    nextId,             \* the next _id the database hands out
    _lastPostCheck,     \* this._lastPostCheck
    task,               \* per asynchronous chain: where it is, and its locals
    rm,                 \* the removeAccount call in progress
    timerDue,           \* per loop: when its interval timer fires next
    commands,           \* add/remove commands received so far
    log                 \* history, per record _id and chat: deliveries that
                        \* succeeded (ok), that failed for good (failed), and
                        \* additions to sentTo (marked)

ledgerVars == <<now, monitoredUsers, activeStory, feed, storyHistory,
                postHistory, followerHistory, nextId, _lastPostCheck, task, rm, timerDue,
                commands, log>>

VARIABLES
    \* ---- profile checks (SpecProfile) ----
    api,                \* per identity: the profile the provider serves
    prof,               \* the checkSingleAccount call in progress: where it
                        \* is, its locals, and what it has sent
    _recentlyAddedAccounts, \* this._recentlyAddedAccounts: when added, or 0
    checks,             \* profile checks begun so far
    edits               \* changes of the provider's profile so far

profileVars == <<api, prof, _recentlyAddedAccounts, checks, edits>>

VARIABLES
    \* ---- change detector (SpecDetect) ----
    current,            \* the snapshot just fetched
    previous,           \* the latest stored snapshot, or NoSnapshot
    changes,            \* what _detectChanges returned
    detected            \* whether _detectChanges has been called

detectVars == <<current, previous, changes, detected>>

VARIABLES
    \* ---- concurrent /add commands (SpecAdds) ----
    addFlows,           \* per chat: the addAccount call of that chat, where
                        \* it is, and its locals
    initialSent         \* history, per chat: initial-data notifications
                        \* delivered to it

addsVars == <<addFlows, initialSent>>

VARIABLES
    \* ---- the process: Bot and the HTTP server (SpecHealth) ----
    botPc,              \* where main() stands: initialize(), serving,
                        \* gracefulShutdown(), exited
    botIsInitializing,  \* Bot's this.isInitializing
    isConnected,        \* DatabaseService's this.isConnected
    healthLog           \* history: the answers of GET /health, as pairs of
                        \* status and HTTP status code

healthVars == <<botPc, botIsInitializing, isConnected, healthLog>>

VARIABLES
    \* ---- the post throttle over the rate limiter (SpecThrottle) ----
    chain,              \* per caller: where its chain stands around
                        \* _checkNewPosts
    postFetches         \* history: the moments at which fetchAllPosts was
                        \* invoked, in order

throttleVars == <<chain, postFetches>>

vars == <<rateVars, schedVars, ledgerVars, profileVars, detectVars, addsVars,
          healthVars, throttleVars>>

\* What each specification leaves alone.
exceptRate == <<schedVars, ledgerVars, profileVars, detectVars, addsVars,
                healthVars, throttleVars>>
exceptSched == <<rateVars, ledgerVars, profileVars, detectVars, addsVars,
                 healthVars, throttleVars>>
exceptLedger == <<rateVars, schedVars, profileVars, detectVars, addsVars,
                  healthVars, throttleVars>>
exceptProfile == <<rateVars, schedVars, detectVars, addsVars, healthVars, throttleVars>>
exceptDetect == <<rateVars, schedVars, ledgerVars, profileVars, addsVars,
                  healthVars, throttleVars>>
exceptHealth == <<rateVars, ledgerVars, profileVars, detectVars, addsVars,
                  throttleVars>>

(***************************************************************************)
(* Rate limiter: monitor.js 705-715.                                       *)
(***************************************************************************)

\* options.requestDelay is 30000 ms; the clock counts units of 10 s.
requestDelay == 3

\* The bounds of SpecRate.
MaxClock == 8
MaxGrants == 3
MaxStoryFetches == 2

\* The asynchronous chains that call _rateLimitedRequest: the profile loop
\* (checkSingleAccount, 199), the post loop (_checkNewPosts, 231) and the add
\* command (addAccount -> checkSingleAccount, 56).
Callers == {"profileLoop", "postLoop", "addFlow"}

RateInit ==
    /\ clock = requestDelay
    /\ _lastRequestTime = 0
    /\ rlPc = [c \in Callers |-> "idle"]
    /\ rlWake = [c \in Callers |-> 0]
    /\ grants = <<>>
    /\ external = {}

\* Lines 713-714: the grant.  this._lastRequestTime = Date.now(); return fn().
\* fn is the fetch of the caller: fetchProfileData (199-201) or
\* fetchAllPosts (231-233).
Grant(c) ==
    /\ _lastRequestTime' = clock
    /\ grants' = Append(grants, clock)
    /\ rlPc' = [rlPc EXCEPT ![c] = "inFn"]
    /\ external' = external \cup
                       {[by |-> c, at |-> clock, grant |-> Len(grants) + 1]}

\* Lines 706-711: a caller enters.  The time since the last grant is read
\* once, here; when it is short the caller sleeps for the remainder.
RateEnter(c) ==
    /\ rlPc[c] = "idle"
    /\ Len(grants) + Cardinality({d \in Callers : rlPc[d] = "waiting"}) < MaxGrants
    /\ LET timeSinceLastRequest == clock - _lastRequestTime
       IN  IF timeSinceLastRequest < requestDelay
           THEN /\ rlPc' = [rlPc EXCEPT ![c] = "waiting"]
                /\ rlWake' = [rlWake EXCEPT ![c] =
                                  clock + (requestDelay - timeSinceLastRequest)]
                /\ UNCHANGED <<_lastRequestTime, grants, external>>
           ELSE /\ Grant(c)
                /\ UNCHANGED rlWake
    /\ UNCHANGED clock

\* Line 710 returns: the _delay timer of a waiting caller fires.  Nothing is
\* read again: the caller goes straight on to the grant.
RateWake(c) ==
    /\ rlPc[c] = "waiting"
    /\ clock >= rlWake[c]
    /\ Grant(c)
    /\ UNCHANGED <<clock, rlWake>>

\* The promise returned by fn() settles: the caller's chain goes on.
RateFnDone(c) ==
    /\ rlPc[c] = "inFn"
    /\ rlPc' = [rlPc EXCEPT ![c] = "idle"]
    /\ UNCHANGED <<clock, _lastRequestTime, rlWake, grants, external>>

\* checkStories, line 584: the story loop calls fetchStoryData of the
\* provider for the identity at hand.
StoryFetch ==
    /\ Cardinality({e \in external : e.by = "storyLoop"}) < MaxStoryFetches
    /\ external' = external \cup
                       {[by |-> "storyLoop", at |-> clock, grant |-> 0]}
    /\ UNCHANGED <<clock, _lastRequestTime, rlPc, rlWake, grants>>

\* Time passes.  A timer that is due fires before the clock moves on.
RateTick ==
    /\ clock < MaxClock
    /\ \A c \in Callers : rlPc[c] = "waiting" => clock < rlWake[c]
    /\ clock' = clock + 1
    /\ UNCHANGED <<_lastRequestTime, rlPc, rlWake, grants, external>>

NextRate ==
    \/ \E c \in Callers : RateEnter(c) /\ UNCHANGED exceptRate
    \/ \E c \in Callers : RateWake(c) /\ UNCHANGED exceptRate
    \/ \E c \in Callers : RateFnDone(c) /\ UNCHANGED exceptRate
    \/ StoryFetch /\ UNCHANGED exceptRate
    \/ RateTick /\ UNCHANGED exceptRate

\* C3: any two requests granted by the rate limiter, by whichever callers,
\* are granted at least requestDelay apart, also when a second caller enters
\* the limiter while a first caller is still waiting in it.
C3_GrantSpacing ==
    \A i, j \in 1..Len(grants) :
        i < j => grants[j] - grants[i] >= requestDelay

\* C23: every fetch a poll loop issues to the provider (profile, story or
\* post) is issued by a grant of the rate limiter: it is the fn() of a call
\* of _rateLimitedRequest, invoked at the moment of that grant.
C23_EveryFetchThroughLimiter ==
    \A e \in external :
        /\ e.grant \in 1..Len(grants)
        /\ grants[e.grant] = e.at

(***************************************************************************)
(* Scheduler: start() 464-501, stop() 503-521, checkAllAccounts 523-564,   *)
(* _getUniqueMonitoredAccounts 566-573, _startStoryMonitor 575-596,        *)
(* _startPostMonitor 684-702.                                              *)
(***************************************************************************)

\* The bounds of SpecSched.
NumAccounts == 2     \* identities returned by MonitoredUser.distinct
MaxCycles == 2       \* cycles in progress at once, over the three loops
MaxTimers == 4       \* interval timers alive at once
MaxStarts == 1       \* start() invocations in progress at once

Loops == {"profile", "story", "post"}

\* The null timer handle (this.intervalId = null, lines 12-14); the live
\* handles are 1..MaxTimers.
NoTimer == 0
TimerIds == 1..MaxTimers
StartIds == 1..MaxStarts

\* No cycle: what a cycle started by a timer becomes when it returns.
Gone == [loop |-> "none", pc |-> "gone", idx |-> 0, n |-> 0, owner |-> 0,
         caught |-> FALSE]

\* The constructor, lines 9-14: not running, initializing, no timer.
SchedInit ==
    /\ isRunning = FALSE
    /\ isInitializing = TRUE
    /\ intervalId = NoTimer
    /\ storyIntervalId = NoTimer
    /\ postIntervalId = NoTimer
    /\ timers = [t \in TimerIds |-> "none"]
    /\ storeReachable = TRUE
    /\ startPc = [s \in StartIds |-> "idle"]
    /\ cycles = EmptyBag
    /\ stopReturned = FALSE
    /\ checksBegunAfterStop = {}

\* The cycles in progress are a bag: two cycles of one loop may be at the
\* same place.
Running(c) == c \in BagToSet(cycles)
CyclesOf(loop) == {c \in BagToSet(cycles) : c.loop = loop}
CanSpawn == BagCardinality(cycles) < MaxCycles
Put(b, d) == IF d = Gone THEN b ELSE b (+) SetToBag({d})
Becomes(c, d) == Put(cycles (-) SetToBag({c}), d)

FreeTimerIds == {t \in TimerIds : timers[t] = "none"}
NewTimerId == CHOOSE t \in FreeTimerIds : \A j \in FreeTimerIds : t <= j

\* A cycle that has just called _getUniqueMonitoredAccounts (535, 581, 688)
\* and awaits the list.  owner is the start() invocation awaiting the cycle,
\* 0 for a cycle started by a timer.  caught is history: the catch of the
\* loop body (553-556, 587-589) has caught an error in this cycle.
NewCycle(loop, owner) ==
    [loop |-> loop, pc |-> "enum", idx |-> 0, n |-> 0, owner |-> owner,
     caught |-> FALSE]

\* Lines 566-573: the error of MonitoredUser.distinct is caught and an empty
\* list returned.
_getUniqueMonitoredAccounts == IF storeReachable THEN NumAccounts ELSE 0

\* A cycle returns: a start() awaiting it sees it done, a timer's is dropped.
Finished(c) == IF c.owner = 0 THEN Gone ELSE [c EXCEPT !.pc = "done"]

\* Whether the loop goes on to the identity at position i of its list.
\* checkAllAccounts breaks when the service is not running (543-546);
\* checkStories (582) and checkPosts (689) iterate the whole list.
GoesOn(c, i) ==
    /\ i <= c.n
    /\ c.loop = "profile" => isRunning

\* A loop that begins the check of the identity it has just checked once
\* more before it goes on.
LoopHeadAgain(c0, c, i) ==
    IF GoesOn(c, i)
    THEN /\ cycles' = Becomes(c0, [c EXCEPT !.pc = "check",
                                            !.idx = IF c0.pc = "check" /\ i > 1
                                                    THEN i - 1 ELSE i])
         /\ UNCHANGED checksBegunAfterStop
    ELSE /\ cycles' = Becomes(c0, Finished(c))
         /\ UNCHANGED checksBegunAfterStop

\* The head of the for loop of cycle c (c0 is c as it stands in cycles):
\* begin the check of the identity at position i, or leave the cycle.
LoopHead(c0, c, i) ==
    IF GoesOn(c, i)
    THEN /\ cycles' = Becomes(c0, [c EXCEPT !.pc = "check", !.idx = i])
         /\ checksBegunAfterStop' =
                IF stopReturned /\ ~isRunning
                THEN checksBegunAfterStop \cup {c.loop}
                ELSE checksBegunAfterStop
    ELSE /\ cycles' = Becomes(c0, Finished(c))
         /\ UNCHANGED checksBegunAfterStop

\* The identity store becomes unreachable, or reachable again.
StoreFlips ==
    /\ storeReachable' = ~storeReachable
    /\ UNCHANGED <<isRunning, isInitializing, intervalId, storyIntervalId,
                   postIntervalId, timers, startPc, cycles, stopReturned,
                   checksBegunAfterStop>>

\* start(), lines 465-473: refused when already running; otherwise the probe
\* _getUniqueMonitoredAccounts() is awaited.
StartCall(s) ==
    /\ startPc[s] = "idle"
    /\ ~isRunning
    /\ startPc' = [startPc EXCEPT ![s] = "probe"]
    /\ stopReturned' = FALSE
    /\ UNCHANGED <<isRunning, isInitializing, intervalId, storyIntervalId,
                   postIntervalId, timers, storeReachable, cycles,
                   checksBegunAfterStop>>

\* Lines 473-479: the probe returns (its result is not looked at, and a
\* failure arrives as an empty list); the flags are set and the initial
\* checkAllAccounts() is called, which passes its guards (524-532) and awaits
\* the account list.
StartProbeReturn(s) ==
    /\ startPc[s] = "probe"
    /\ CanSpawn
    /\ isInitializing' = FALSE
    /\ isRunning' = TRUE
    /\ cycles' = Put(cycles, NewCycle("profile", s))
    /\ startPc' = [startPc EXCEPT ![s] = "awaitProfile"]
    /\ UNCHANGED <<intervalId, storyIntervalId, postIntervalId, timers,
                   storeReachable, stopReturned, checksBegunAfterStop>>

\* The cycle start() invocation s is awaiting, once it has returned.
Awaited(s) == {c \in BagToSet(cycles) : c.owner = s /\ c.pc = "done"}

\* checkStories() and checkPosts() return at once while initializing (579,
\* 686) and otherwise await the account list.
MediaCycle(loop, s) ==
    IF isInitializing THEN [NewCycle(loop, s) EXCEPT !.pc = "done"]
    ELSE NewCycle(loop, s)

\* Lines 479-492 and 575-593: the initial profile pass is over; the profile
\* timer is created and _startStoryMonitor runs checkStories().
StartAfterProfile(s) ==
    /\ startPc[s] = "awaitProfile"
    /\ FreeTimerIds # {}
    /\ \E c \in Awaited(s) : cycles' = Becomes(c, MediaCycle("story", s))
    /\ timers' = [timers EXCEPT ![NewTimerId] = "profile"]
    /\ intervalId' = NewTimerId
    /\ startPc' = [startPc EXCEPT ![s] = "awaitStory"]
    /\ UNCHANGED <<isRunning, isInitializing, storyIntervalId, postIntervalId,
                   storeReachable, stopReturned, checksBegunAfterStop>>

\* Lines 593-594 and 493, 684-699: the initial story pass is over; the story
\* timer is created and _startPostMonitor runs checkPosts().
StartAfterStory(s) ==
    /\ startPc[s] = "awaitStory"
    /\ FreeTimerIds # {}
    /\ \E c \in Awaited(s) : cycles' = Becomes(c, MediaCycle("post", s))
    /\ timers' = [timers EXCEPT ![NewTimerId] = "story"]
    /\ storyIntervalId' = NewTimerId
    /\ startPc' = [startPc EXCEPT ![s] = "awaitPost"]
    /\ UNCHANGED <<isRunning, isInitializing, intervalId, postIntervalId,
                   storeReachable, stopReturned, checksBegunAfterStop>>

\* Lines 699-700 and 495: the initial post pass is over; the post timer is
\* created and start() returns.
StartAfterPost(s) ==
    /\ startPc[s] = "awaitPost"
    /\ FreeTimerIds # {}
    /\ \E c \in Awaited(s) : cycles' = Becomes(c, Gone)
    /\ timers' = [timers EXCEPT ![NewTimerId] = "post"]
    /\ postIntervalId' = NewTimerId
    /\ startPc' = [startPc EXCEPT ![s] = "idle"]
    /\ UNCHANGED <<isRunning, isInitializing, intervalId, storyIntervalId,
                   storeReachable, stopReturned, checksBegunAfterStop>>

\* clearInterval(h): the null handle clears nothing.
ClearInterval(tm, h) == IF h = NoTimer THEN tm ELSE [tm EXCEPT ![h] = "none"]

\* stop(), lines 503-521.  It holds no await: one atomic step.
StopCall ==
    /\ timers' = ClearInterval(ClearInterval(ClearInterval(timers, intervalId),
                                             storyIntervalId), postIntervalId)
    /\ intervalId' = NoTimer
    /\ storyIntervalId' = NoTimer
    /\ postIntervalId' = NoTimer
    /\ isRunning' = FALSE
    /\ stopReturned' = TRUE
    /\ UNCHANGED <<isInitializing, storeReachable, startPc, cycles,
                   checksBegunAfterStop>>

\* The profile timer fires, lines 482-490: when not running it clears
\* this.intervalId; otherwise it calls checkAllAccounts(), whose guards
\* (524-532) pass, with no look at a cycle still in progress.
ProfileTimerFires(t) ==
    /\ timers[t] = "profile"
    /\ IF ~isRunning
       THEN /\ timers' = ClearInterval(timers, intervalId)
            /\ intervalId' = NoTimer
            /\ UNCHANGED cycles
       ELSE /\ CanSpawn
            /\ cycles' = Put(cycles, NewCycle("profile", 0))
            /\ UNCHANGED <<timers, intervalId>>
    /\ UNCHANGED <<isRunning, isInitializing, storyIntervalId, postIntervalId,
                   storeReachable, startPc, stopReturned, checksBegunAfterStop>>

\* The story timer (594) or the post timer (700) fires: checkStories or
\* checkPosts runs; its only guard is isInitializing (579, 686), which is
\* false once a timer exists.
MediaTimerFires(t) ==
    /\ timers[t] \in {"story", "post"}
    /\ ~isInitializing
    /\ CanSpawn
    /\ cycles' = Put(cycles, NewCycle(timers[t], 0))
    /\ UNCHANGED <<isRunning, isInitializing, intervalId, storyIntervalId,
                   postIntervalId, timers, storeReachable, startPc,
                   stopReturned, checksBegunAfterStop>>

\* The account list arrives (535-542, 581-582, 688-689) and the loop begins.
EnumReturn(c) ==
    /\ Running(c)
    /\ c.pc = "enum"
    /\ LoopHead(c, [c EXCEPT !.n = _getUniqueMonitoredAccounts], 1)
    /\ UNCHANGED <<isRunning, isInitializing, intervalId, storyIntervalId,
                   postIntervalId, timers, storeReachable, startPc, stopReturned>>

\* Whether the loop sleeps after the check of an identity.  checkAllAccounts
\* (548-556) sleeps after every identity but the last; checkStories (583-589)
\* and checkPosts (690-695) sleep after every identity.  A check that threw
\* is caught and the loop goes to the next identity without sleeping.
Sleeps(c, threw) == ~threw /\ (c.loop = "profile" => c.idx < c.n)

\* A loop without the try/catch around the check of an identity: an error
\* ends the cycle.
CheckReturnAborts(c, threw) ==
    /\ Running(c)
    /\ c.pc = "check"
    /\ threw => c.loop # "post"
    /\ IF threw
       THEN /\ cycles' = Becomes(c, Finished([c EXCEPT !.caught = TRUE]))
            /\ UNCHANGED checksBegunAfterStop
       ELSE IF Sleeps(c, threw)
       THEN /\ cycles' = Becomes(c, [c EXCEPT !.pc = "delay"])
            /\ UNCHANGED checksBegunAfterStop
       ELSE LoopHead(c, c, c.idx + 1)
    /\ UNCHANGED <<isRunning, isInitializing, intervalId, storyIntervalId,
                   postIntervalId, timers, storeReachable, startPc, stopReturned>>

\* The check of one identity returns or throws.  _checkNewPosts catches
\* everything itself (220-240) and never throws.  An error is caught by the
\* loop body (553-556, 587-589), which goes to the next identity.
CheckReturn(c, threw) ==
    /\ Running(c)
    /\ c.pc = "check"
    /\ threw => c.loop # "post"
    /\ IF Sleeps(c, threw)
       THEN /\ cycles' = Becomes(c, [c EXCEPT !.pc = "delay"])
            /\ UNCHANGED checksBegunAfterStop
       ELSE LoopHead(c, [c EXCEPT !.caught = @ \/ threw], c.idx + 1)
    /\ UNCHANGED <<isRunning, isInitializing, intervalId, storyIntervalId,
                   postIntervalId, timers, storeReachable, startPc, stopReturned>>

\* The sleep between two identities is over (551, 586, 692).
DelayReturn(c) ==
    /\ Running(c)
    /\ c.pc = "delay"
    /\ LoopHead(c, c, c.idx + 1)
    /\ UNCHANGED <<isRunning, isInitializing, intervalId, storyIntervalId,
                   postIntervalId, timers, storeReachable, startPc, stopReturned>>

NextSched ==
    \/ StoreFlips /\ UNCHANGED exceptSched
    \/ \E s \in StartIds : StartCall(s) /\ UNCHANGED exceptSched
    \/ \E s \in StartIds : StartProbeReturn(s) /\ UNCHANGED exceptSched
    \/ \E s \in StartIds : StartAfterProfile(s) /\ UNCHANGED exceptSched
    \/ \E s \in StartIds : StartAfterStory(s) /\ UNCHANGED exceptSched
    \/ \E s \in StartIds : StartAfterPost(s) /\ UNCHANGED exceptSched
    \/ StopCall /\ UNCHANGED exceptSched
    \/ \E t \in TimerIds : ProfileTimerFires(t) /\ UNCHANGED exceptSched
    \/ \E t \in TimerIds : MediaTimerFires(t) /\ UNCHANGED exceptSched
    \/ \E c \in BagToSet(cycles) : EnumReturn(c) /\ UNCHANGED exceptSched
    \/ \E c \in BagToSet(cycles), threw \in BOOLEAN :
           CheckReturn(c, threw) /\ UNCHANGED exceptSched
    \/ \E c \in BagToSet(cycles) : DelayReturn(c) /\ UNCHANGED exceptSched

\* The number of cycles of a loop that are in progress (a cycle that has
\* returned to the start() awaiting it is not).
InProgress(loop) ==
    BagCardinality([c \in {d \in BagToSet(cycles) : d.loop = loop /\ d.pc # "done"}
                       |-> cycles[c]])

\* C4: for each of the three loops at most one cycle is in progress at any
\* time: a timer that fires while the previous cycle of its loop has not
\* finished starts no second, overlapping cycle.
C4_NoOverlappingCycles == \A loop \in Loops : InProgress(loop) <= 1

\* C5: once stop() has returned, and until start() is called again,
\* isRunning is false and no interval timer is alive, also when stop() was
\* called while a start() was still in progress.
C5_StoppedStaysStopped ==
    stopReturned => (~isRunning /\ \A t \in TimerIds : timers[t] = "none")

\* C6: once stop() has been called, no cycle of any of the three loops begins
\* the check of a further identity (the check in flight may finish).
C6_NoCheckBeginsAfterStop == checksBegunAfterStop = {}

\* C7: when the identity store cannot be enumerated as start() probes it,
\* start() ends there with an error: the service does not enter Running and
\* no timer is created.
C7_ProbeFailureKeepsStopped ==
    [][\A s \in StartIds :
          (startPc[s] = "probe" /\ startPc'[s] # "probe" /\ ~storeReachable)
              => (startPc'[s] = "idle" /\ ~isRunning' /\ timers' = timers)]_vars

\* A step takes the cycle c out of the place where it stood, or puts the
\* cycle d at a place where it did not stand.
Left(c) == CopiesIn(c, cycles) > CopiesIn(c, cycles')
Entered(d) == CopiesIn(d, cycles') > CopiesIn(d, cycles)

\* The cycle d is the cycle c further on.
SameCycle(c, d) == d.loop = c.loop /\ d.owner = c.owner /\ d.n = c.n

\* The cycle c has returned to its caller.
Returned(c) ==
    \E x \in BOOLEAN : cycles' = Becomes(c, Finished([c EXCEPT !.caught = x]))

\* C22: whatever becomes of the check of an identity, that it returns or
\* that it throws, the cycle goes on: it sleeps, or it begins the check of
\* the next identity of its list, and it returns (to the timer or to the
\* start() that awaits it, as a call that has not failed) only past the last
\* identity or, in the profile loop, when the service is not running; after
\* a sleep it does the same.
C22_ErrorContainedInIdentity ==
    [][\A c \in BagToSet(cycles) :
          (c.pc \in {"check", "delay"} /\ Left(c)) =>
              \/ \E d \in BagToSet(cycles') :
                     /\ Entered(d) /\ SameCycle(c, d)
                     /\ c.pc = "check" /\ d.pc = "delay" /\ d.idx = c.idx
              \/ \E d \in BagToSet(cycles') :
                     /\ Entered(d) /\ SameCycle(c, d)
                     /\ d.pc = "check" /\ d.idx = c.idx + 1
              \/ /\ c.idx = c.n \/ (c.loop = "profile" /\ ~isRunning)
                 /\ Returned(c)]_vars

\* The flags are never both set, isRunning is set only by the step of
\* start() that follows its probe (475-476), and cleared only by stop()
\* (519).
FlagsOnlyInStartAndStop ==
    /\ [](~(isRunning /\ isInitializing))
    /\ [][/\ (~isRunning /\ isRunning') =>
                 \E s \in StartIds :
                     startPc[s] = "probe" /\ startPc'[s] = "awaitProfile"
          /\ (isRunning /\ ~isRunning') =>
                 /\ stopReturned'
                 /\ intervalId' = NoTimer
                 /\ storyIntervalId' = NoTimer
                 /\ postIntervalId' = NoTimer]_vars

\* A cycle enumerates the identities or begins the check of one only while
\* the service is running.
WorkOnlyWhileRunning ==
    [][\A d \in BagToSet(cycles') :
          (Entered(d) /\ d.pc \in {"enum", "check"})
              => (isRunning' /\ ~isInitializing')]_vars

\* C28: isRunning and isInitializing are never both true; isRunning becomes
\* true only inside start() and false only inside stop() or a failed
\* start(); and no cycle of a loop enumerates the identities or begins the
\* check of one while the service is initializing or stopped.
C28_FlagsFollowStateMachine ==
    FlagsOnlyInStartAndStop /\ WorkOnlyWhileRunning

\* C30: a cycle begins the check of an identity only as the step that
\* follows the enumeration (the first identity of the list) or that ends
\* the check of the identity before it or the sleep after that check (the
\* next identity of the list): the identities are begun one after another
\* in the order of the list, none before the one before it is over, and
\* none twice.
C30_OneIdentityAtATimeInOrder ==
    [][\A d \in BagToSet(cycles') :
          (Entered(d) /\ d.pc = "check") =>
              /\ d.idx \in 1..d.n
              /\ \E c \in BagToSet(cycles) :
                     /\ Left(c)
                     /\ c.loop = d.loop /\ c.owner = d.owner
                     /\ \/ c.pc = "enum" /\ d.idx = 1
                        \/ /\ c.pc \in {"check", "delay"}
                           /\ c.n = d.n
                           /\ d.idx = c.idx + 1]_vars

\* C31: a cycle begins the check of an identity other than the first of its
\* list only as the step that ends the sleep (_delay) after the check of the
\* identity before it, whether that check returned or threw.
C31_DelayBetweenIdentities ==
    [][\A d \in BagToSet(cycles') :
          (Entered(d) /\ d.pc = "check" /\ d.idx > 1) =>
              \E c \in BagToSet(cycles) :
                  /\ Left(c) /\ SameCycle(c, d)
                  /\ c.pc = "delay" /\ c.idx = d.idx - 1]_vars

\* The handle field of a loop's timer.
HandleOf(loop) ==
    IF loop = "profile" THEN intervalId
    ELSE IF loop = "story" THEN storyIntervalId ELSE postIntervalId

\* C32: every live interval timer is the one its loop's handle field refers
\* to, so that each loop has at most one timer and stop() clears every
\* timer there is.
C32_TimersReferenced ==
    \A t \in TimerIds : timers[t] # "none" => HandleOf(timers[t]) = t

\* C30, witness: a story cycle sleeps after the check of the last identity
\* of a list of NumAccounts, every check of the cycle having returned.
C30_Witness ==
    \E d \in BagToSet(cycles) :
        /\ d.loop = "story" /\ d.pc = "delay"
        /\ d.n = NumAccounts /\ d.idx = d.n /\ ~d.caught

\* C22, witness: a profile cycle and a story cycle are each checking their
\* second identity after the check of the first one threw.
C22_Witness ==
    \A loop \in {"profile", "story"} :
        \E d \in BagToSet(cycles) :
            d.loop = loop /\ d.pc = "check" /\ d.idx = 2 /\ d.caught

(***************************************************************************)
(* Snapshots and the change detector: _parseApiResponse and _getImageHash  *)
(* of the provider (part_003 133-181), _detectChanges 428-449.             *)
(***************************************************************************)

\* A count that a document does not hold (null or undefined).
NoCount == -1
\* What findOne returns when the identity has no snapshot.
NoSnapshot == [username |-> NULL]
\* The changes object before the detector has run.
NoChanges == [hasChanged |-> FALSE]

\* The counts, names, picture references and picture hashes of the
\* snapshots the detector is applied to.
MaxCount == 1
Counts == 0..MaxCount
Names == {NULL, "a"}
Pics == {NULL, "pic"}
Hashes == {NULL, "h1", "h2"}

\* Only a snapshot with a picture has a hash of it (part_003 65-67).
Snapshots ==
    {s \in [username : {"alpha"}, userFullname : Names, userProfilePic : Pics,
            userProfilePicHash : Hashes, isPrivate : BOOLEAN,
            followersCount : Counts \cup {NoCount}, followingCount : Counts,
            postsCount : Counts, isVerified : BOOLEAN] :
        s.userProfilePic = NULL => s.userProfilePicHash = NULL}

\* x || 0 on a count.
OrZero(x) == IF x = NoCount THEN 0 ELSE x

\* A detector that compares the picture's reference, not its content hash.
profilePicUrlChanged(cur, prev) ==
    cur.userProfilePic # prev.userProfilePic

\* profilePicChanged (438).
profilePicChanged(cur, prev) ==
    cur.userProfilePicHash # prev.userProfilePicHash

\* The changes object of 431-442, before hasChanged is computed.
Signals(cur, prev) ==
    [hasChanged |-> FALSE,
     followerDiff |-> OrZero(cur.followersCount) - OrZero(prev.followersCount),
     followingDiff |-> OrZero(cur.followingCount) - OrZero(prev.followingCount),
     postsDiff |-> OrZero(cur.postsCount) - OrZero(prev.postsCount),
     verifiedChanged |-> cur.isVerified # prev.isVerified,
     privateChanged |-> cur.isPrivate # prev.isPrivate,
     profilePicChanged |-> profilePicChanged(cur, prev),
     nameChanged |-> cur.userFullname # prev.userFullname]

\* A verdict that leaves the name out.
AnySignalButName(ch) ==
    \/ ch.followerDiff # 0 \/ ch.followingDiff # 0 \/ ch.postsDiff # 0
    \/ ch.verifiedChanged \/ ch.privateChanged \/ ch.profilePicChanged

\* The verdict of 444-446.
AnySignal(ch) ==
    \/ ch.followerDiff # 0 \/ ch.followingDiff # 0 \/ ch.postsDiff # 0
    \/ ch.verifiedChanged \/ ch.privateChanged \/ ch.profilePicChanged
    \/ ch.nameChanged

_detectChanges(cur, prev) ==
    IF prev = NoSnapshot THEN [hasChanged |-> TRUE]
    ELSE [Signals(cur, prev)
              EXCEPT !.hasChanged = AnySignal(Signals(cur, prev))]

\* ---- the provider's profile, and what fetchProfileData makes of it ----

\* The profile the provider serves of an identity when it is first tracked.
FirstApi ==
    [user_fullname |-> "a", user_profile_pic |-> "pic", picBytes |-> "b1",
     is_private |-> FALSE, user_followers |-> 1, user_following |-> 1,
     total_posts |-> 0, is_verified |-> FALSE]

\* x || null on a string.
OrNull(x) == IF x = "" THEN NULL ELSE x

\* _parseApiResponse on a response with status true (145-161).
_parseApiResponse(apiData, targetUsername) ==
    [username |-> targetUsername,
     userFullname |-> OrNull(apiData.user_fullname),
     userProfilePic |-> OrNull(apiData.user_profile_pic),
     userProfilePicHash |-> NULL,
     isPrivate |-> (apiData.is_private = TRUE),
     followersCount |-> OrZero(apiData.user_followers),
     followingCount |-> OrZero(apiData.user_following),
     postsCount |-> OrZero(apiData.total_posts),
     isVerified |-> (apiData.is_verified = TRUE)]

\* md5 of the picture's bytes.
Md5(bytes) == IF bytes = "b1" THEN "h1" ELSE "h2"

\* _getImageHash (164-181): the hash of the picture, or null when there is
\* no picture or the download fails.
_getImageHash(apiData, downloaded) ==
    IF OrNull(apiData.user_profile_pic) = NULL \/ ~downloaded THEN NULL
    ELSE Md5(apiData.picBytes)

\* The data of a successful fetchProfileData (62-69).
fetchProfileData(apiData, username, downloaded) ==
    [_parseApiResponse(apiData, username)
        EXCEPT !.userProfilePicHash = _getImageHash(apiData, downloaded)]

\* The detector is handed a pair of snapshots, or a snapshot and none.
DetectInit ==
    /\ current \in Snapshots
    /\ previous \in Snapshots \cup {NoSnapshot}
    /\ changes = NoChanges
    /\ detected = FALSE

DetectIdle ==
    /\ current = NoSnapshot
    /\ previous = NoSnapshot
    /\ changes = NoChanges
    /\ detected = FALSE

DetectCall ==
    /\ ~detected
    /\ current # NoSnapshot
    /\ changes' = _detectChanges(current, previous)
    /\ detected' = TRUE
    /\ UNCHANGED <<current, previous>>

NextDetect == DetectCall /\ UNCHANGED exceptDetect

\* The fields the detector compares, after the || 0 of the counts.
Compared(s) ==
    <<OrZero(s.followersCount), OrZero(s.followingCount), OrZero(s.postsCount),
      s.isVerified, s.isPrivate, s.userFullname, s.userProfilePicHash>>

\* C16: for a pair with previous present, hasChanged is true exactly when
\* one of the seven signals is set, each signal being set exactly when its
\* field differs between the two snapshots; when all compared fields are
\* equal, hasChanged is false.
C16_ChangedIsOrOfSignals ==
    (detected /\ previous # NoSnapshot) =>
        /\ changes.hasChanged <=>
              \/ OrZero(current.followersCount) # OrZero(previous.followersCount)
              \/ OrZero(current.followingCount) # OrZero(previous.followingCount)
              \/ OrZero(current.postsCount) # OrZero(previous.postsCount)
              \/ current.isVerified # previous.isVerified
              \/ current.isPrivate # previous.isPrivate
              \/ current.userFullname # previous.userFullname
              \/ current.userProfilePicHash # previous.userProfilePicHash
        /\ changes.hasChanged <=>
              \/ changes.followerDiff # 0 \/ changes.followingDiff # 0
              \/ changes.postsDiff # 0 \/ changes.verifiedChanged
              \/ changes.privateChanged \/ changes.nameChanged
              \/ changes.profilePicChanged
        /\ Compared(current) = Compared(previous) => ~changes.hasChanged

\* C16, witness: the detector has run on a pair that differs in the full
\* name alone and has reported a change.
C16_Witness ==
    /\ detected
    /\ previous # NoSnapshot
    /\ current.userFullname # previous.userFullname
    /\ [current EXCEPT !.userFullname = previous.userFullname] = previous
    /\ changes.hasChanged

\* The pair differs in the picture's content hash and in nothing else.
OnlyHashDiffers ==
    /\ previous # NoSnapshot
    /\ current.userProfilePicHash # previous.userProfilePicHash
    /\ [current EXCEPT !.userProfilePicHash = previous.userProfilePicHash] = previous

\* C17: for a pair that differs only in the picture's content hash the
\* detector reports a change with profilePicChanged set and every other
\* signal unset.
C17_OnlyAvatarSignal ==
    (detected /\ OnlyHashDiffers) =>
        /\ changes.hasChanged
        /\ changes.profilePicChanged
        /\ changes.followerDiff = 0
        /\ changes.followingDiff = 0
        /\ changes.postsDiff = 0
        /\ ~changes.verifiedChanged
        /\ ~changes.privateChanged
        /\ ~changes.nameChanged

\* C17, witness: the detector has run on a pair with two different hashes of
\* a picture that both snapshots hold, all else equal.
C17_Witness ==
    /\ detected
    /\ OnlyHashDiffers
    /\ current.userProfilePicHash = "h2"
    /\ previous.userProfilePicHash = "h1"
    /\ changes.profilePicChanged

(***************************************************************************)
(* The story/post ledger: _startStoryMonitor 575-596, _processStoryResult  *)
(* 598-630, _notifyStory 632-682, _startPostMonitor 684-702, _checkNewPosts*)
(* 219-241, _processPostResult 243-274, _notifyPost 276-324, addAccount    *)
(* 31-70, removeAccount 72-93.                                             *)
(*                                                                         *)
(* Time is counted in hours: now is the hour the clock shows.  Two reads   *)
(* of the clock in the same hour are less than five minutes apart          *)
(* (t - t0 < 1), two reads in different hours more than five minutes       *)
(* (t - t0 >= 1).  A loop's cycle is taken to end before its timer fires   *)
(* again (the overlap of cycles is the scheduler's, SpecSched), and the    *)
(* story and the post callback are taken one at a time, as in start(),     *)
(* which awaits the initial story pass before it begins the initial post   *)
(* pass (492-493).  Spec runs the two loops and the remove command,        *)
(* SpecAdd the add and the remove command.  The forced profile check of    *)
(* addAccount is one step: it leaves a snapshot of the identity.           *)
(***************************************************************************)

\* STORY_CHECK_INTERVAL is 3600000 ms (576), options.postCheckInterval too
\* (23): one hour.
STORY_CHECK_INTERVAL == 1
postCheckInterval == 1

\* _parseRelativeTime: a post labelled "1 day ago" is stamped 24 h before
\* the fetch.
DayHours == 24

\* The bounds of Spec.
MaxTime == 2         \* the clock runs from 1 to MaxTime
MaxRecords == 2      \* story and post records ever created
MaxCommands == 1     \* add and remove commands received

Users == {"alpha"}
UserOrder == <<"alpha">>
Chats == {"c1", "c2"}
ChatOrder == <<"c1", "c2">>
Posts == {"p1", "p2"}
\* The posts the identity publishes while its profile is checked.
ProfilePosts == {"p1", "p3"}
PostOrder == <<"p1", "p2", "p3">>
\* p2 carries an "N days ago" label; p1 carries none.
AgoPosts == {"p2"}
Ids == 1..MaxRecords

StoryTasks == {"storyLoop", "addFlow"}
\* profileCheck is the _checkNewPosts call of a profile check (212).
PostTasks == {"postLoop", "profileCheck"}
LoopTasks == {"storyLoop", "postLoop"}
Tasks == StoryTasks \cup PostTasks

\* _extractPostTimestamp / _parseRelativeTime: the timestamp a fetch at time
\* t gives a post; new Date() when the post carries no "ago" label.
PostTimestamp(p, t) == IF p \in AgoPosts THEN t - DayHours ELSE t

SeqOf(order, S) == SelectSeq(order, LAMBDA x : x \in S)

\* A lookup of the subscribers that returns every chat there is.
EveryChat(u) == Chats

\* MonitoredUser.distinct('username') and MonitoredUser.find({username}).
TrackedUsers == {s.username : s \in monitoredUsers}
SubscribersOf(u) == {s.chatId : s \in {x \in monitoredUsers : x.username = u}}

\* The locals of one chain of awaits.  pc is where the chain is suspended.
\* lastSeen, repeat, seen, owed, already, tried and made are history fields:
\* what the story loop observed in its previous cycle, and what the running
\* check found in the ledger when it observed its events.
IdleTask ==
    [pc |-> "idle", user |-> NULL, chat |-> NULL, users |-> <<>>, idx |-> 0,
     cycle |-> 0, media |-> NULL, posts |-> <<>>, pi |-> 0, stamp |-> 0,
     rec |-> 0, docSentTo |-> {}, chats |-> <<>>, ci |-> 0,
     lastSeen |-> [u \in Users |-> <<0, NULL>>], repeat |-> FALSE,
     seen |-> {}, owed |-> {}, already |-> {}, tried |-> {}, made |-> {}]

IdleRm == [pc |-> "idle", user |-> NULL, chat |-> NULL, pending |-> {}]

NoLog == [ok |-> 0, failed |-> 0, marked |-> 0]

\* The store holds one of the given sets of subscriptions and, with
\* snapshots, the snapshot that the forced check of addAccount left of every
\* tracked identity.
LedgerFrom(stores, withSnapshots) ==
    /\ now = 1
    /\ monitoredUsers \in stores
    /\ activeStory = [u \in Users |-> NULL]
    /\ feed = [u \in Users |-> {}]
    /\ storyHistory = {}
    /\ postHistory = {}
    /\ followerHistory =
           [u \in Users |-> IF withSnapshots /\ u \in TrackedUsers
                            THEN <<fetchProfileData(FirstApi, u, TRUE)>>
                            ELSE <<>>]
    /\ nextId = 1
    /\ _lastPostCheck = [u \in Users |-> 0]
    /\ task = [t \in Tasks |-> IdleTask]
    /\ rm = IdleRm
    /\ timerDue = [t \in LoopTasks |-> 1]
    /\ commands = 0
    /\ log = [i \in Ids |-> [event |-> <<>>, to |-> [c \in Chats |-> NoLog]]]

\* The identity is tracked by one chat or by both.
LedgerStart(withSnapshots) ==
    LedgerFrom({{[username |-> "alpha", chatId |-> "c1"]},
                {[username |-> "alpha", chatId |-> c] : c \in Chats}},
               withSnapshots)

LedgerInit == LedgerStart(TRUE)

IntervalOf(t) == IF t = "storyLoop" THEN STORY_CHECK_INTERVAL ELSE postCheckInterval
HistoryOf(t) == IF t \in StoryTasks THEN storyHistory ELSE postHistory

\* The locals of the check of one identity, dropped when the check is over.
ClearWork(tk) ==
    [tk EXCEPT !.user = NULL, !.media = NULL, !.posts = <<>>, !.pi = 0,
               !.stamp = 0, !.rec = 0, !.docSentTo = {}, !.chats = <<>>,
               !.ci = 0, !.repeat = FALSE, !.seen = {}, !.owed = {},
               !.already = {}, !.tried = {}, !.made = {}]

\* The sleep after an identity in checkStories (586) and checkPosts (692).
ToDelay(tk) == [tk EXCEPT !.pc = "delay"]

\* The chain has returned from the check of its identity: a loop sleeps, the
\* add command is over.  The post check of a profile check stands at
\* "delay" until checkSingleAccount takes over again (213-215).
CheckOver(t, tk) ==
    IF t = "addFlow" THEN IdleTask ELSE ToDelay(tk)

\* What the ledger holds about the events a check has just observed: the
\* events that have a record, the (event, subscriber) pairs already in a
\* sentTo set, and the pairs that are not.
Observe(t, tk, keys) ==
    LET coll == {r \in HistoryOf(t) : r.username = tk.user /\ r.key \in keys}
        done == UNION {{<<r.key, c>> : c \in r.sentTo} : r \in coll}
    IN  [tk EXCEPT !.seen = {r.key : r \in coll},
                   !.already = done,
                   !.owed = ({r.key : r \in coll} \X SubscribersOf(tk.user)) \ done]

\* ---- time and the provider ----

Tick ==
    /\ now < MaxTime
    /\ now' = now + 1
    /\ UNCHANGED <<monitoredUsers, activeStory, feed, storyHistory, postHistory,
                   nextId, _lastPostCheck, task, rm, timerDue, commands, log,
                   followerHistory>>

\* The ledger looks at the provider only when a fetch returns: a change of
\* the provider is taken when a fetch of the identity is outstanding, the
\* only moment at which the program can tell it from a later one.
Fetching(T, u) == \E t \in T : task[t].pc = "fetch" /\ task[t].user = u

\* The identity publishes its first story, or replaces the active story by
\* the next one; a medium that has been replaced does not come back.
NextStory(m) == IF m = NULL THEN "m1" ELSE "m2"

StoryChanges(u) ==
    /\ Fetching(StoryTasks, u)
    /\ activeStory[u] # "m2"
    /\ activeStory' = [activeStory EXCEPT ![u] = NextStory(@)]
    /\ UNCHANGED <<now, monitoredUsers, feed, storyHistory, postHistory, nextId,
                   _lastPostCheck, task, rm, timerDue, commands, log,
                   followerHistory>>

\* The identity publishes a post.
PostPublished(u, p) ==
    /\ Fetching(PostTasks, u)
    /\ p \notin feed[u]
    /\ feed' = [feed EXCEPT ![u] = @ \cup {p}]
    /\ UNCHANGED <<now, monitoredUsers, activeStory, storyHistory, postHistory,
                   nextId, _lastPostCheck, task, rm, timerDue, commands, log,
                   followerHistory>>

\* ---- the fan-out: _notifyStory 632-682, _notifyPost 276-324 ----

\* The event the chain is notifying about.
KeyOf(t, tk) == IF t \in StoryTasks THEN tk.media ELSE tk.posts[tk.pi]

\* The for loop over uniqueChatIds, from position i: a chat in the in-memory
\* record's sentTo is skipped (638-641, 282-284) and the primary send to the
\* next other chat is awaited.  Past the last chat the fan-out returns: to
\* the for loop over newPosts (258-272), whose next record is built and
\* saved, or to the caller of the check.
NextChat(t, tk, i) ==
    LET rest == {j \in i..Len(tk.chats) : tk.chats[j] \notin tk.docSentTo}
    IN  IF rest = {} THEN
            IF t \in PostTasks /\ tk.pi < Len(tk.posts)
            THEN [tk EXCEPT !.pc = "save", !.pi = tk.pi + 1, !.stamp = now,
                            !.rec = 0, !.docSentTo = {}, !.chats = <<>>,
                            !.ci = 0]
            ELSE CheckOver(t, tk)
        ELSE LET j == CHOOSE k \in rest : \A l \in rest : k <= l
             IN  [tk EXCEPT !.pc = "send", !.ci = j,
                            !.tried = @ \cup {<<KeyOf(t, tk), tk.chats[j]>>}]

\* MonitoredUser.find({username}) returns (633-634, 277-278).
NotifySubsReturn(t) ==
    /\ task[t].pc = "subs"
    /\ LET tk == [task[t] EXCEPT !.chats = SeqOf(ChatOrder, SubscribersOf(task[t].user))]
       IN  task' = [task EXCEPT ![t] = NextChat(t, tk, 1)]
    /\ UNCHANGED <<now, monitoredUsers, activeStory, feed, storyHistory,
                   postHistory, nextId, _lastPostCheck, rm, timerDue, commands, log,
                   followerHistory>>

Bump(l, id, chat, field) ==
    [l EXCEPT ![id].to[chat] =
        IF field = "ok" THEN [@ EXCEPT !.ok = @ + 1]
        ELSE IF field = "failed" THEN [@ EXCEPT !.failed = @ + 1]
        ELSE [@ EXCEPT !.marked = @ + 1]]

\* A send that is followed by the text whether it was delivered or not.
AfterPrimaryThenText(tk, ok) == [tk EXCEPT !.pc = "fallback"]

\* Where the chain stands after the primary send (sendVideo / sendPhoto,
\* 647-669, 290-312): delivered, sent = true and the updateOne is awaited;
\* rejected, the catch handler awaits the text-only sendMessage.
AfterPrimary(tk, ok) ==
    IF ok THEN [tk EXCEPT !.pc = "mark"] ELSE [tk EXCEPT !.pc = "fallback"]

SendReturn(t, ok) ==
    /\ task[t].pc = "send"
    /\ task' = [task EXCEPT ![t] = AfterPrimary(task[t], ok)]
    /\ log' = IF ok THEN Bump(log, task[t].rec, task[t].chats[task[t].ci], "ok")
              ELSE log
    /\ UNCHANGED <<now, monitoredUsers, activeStory, feed, storyHistory,
                   postHistory, nextId, _lastPostCheck, rm, timerDue, commands,
                   followerHistory>>

\* A fallback handler that sets sent whether or not the text was delivered.
AfterFallbackMarks(t, tk, ok) == [tk EXCEPT !.pc = "mark"]

\* Where the chain stands after the text-only fallback (652-656, 295-299):
\* delivered, sent = true and the updateOne is awaited; rejected, the handler
\* throws before sent is set, the catch of the loop body (678-680, 320-322)
\* logs and the loop goes to the next chat.
AfterFallback(t, tk, ok) ==
    IF ok THEN [tk EXCEPT !.pc = "mark"] ELSE NextChat(t, tk, tk.ci + 1)

FallbackReturn(t, ok) ==
    /\ task[t].pc = "fallback"
    /\ task' = [task EXCEPT ![t] = AfterFallback(t, task[t], ok)]
    /\ log' = Bump(log, task[t].rec, task[t].chats[task[t].ci],
                   IF ok THEN "ok" ELSE "failed")
    /\ UNCHANGED <<now, monitoredUsers, activeStory, feed, storyHistory,
                   postHistory, nextId, _lastPostCheck, rm, timerDue, commands,
                   followerHistory>>

\* updateOne({_id}, {$addToSet: {sentTo: chatId}}) on a collection.
AddToSentTo(coll, id, chat) ==
    {IF r.id = id THEN [r EXCEPT !.sentTo = @ \cup {chat}] ELSE r : r \in coll}

\* The updateOne returns (672-675, 315-318).
MarkReturn(t) ==
    /\ task[t].pc = "mark"
    /\ LET tk == task[t]
           chat == tk.chats[tk.ci]
           newly == \E r \in HistoryOf(t) : r.id = tk.rec /\ chat \notin r.sentTo
       IN  /\ IF t \in StoryTasks
              THEN /\ storyHistory' = AddToSentTo(storyHistory, tk.rec, chat)
                   /\ UNCHANGED postHistory
              ELSE /\ postHistory' = AddToSentTo(postHistory, tk.rec, chat)
                   /\ UNCHANGED storyHistory
           /\ log' = IF newly THEN Bump(log, tk.rec, chat, "marked") ELSE log
           /\ task' = [task EXCEPT ![t] = NextChat(t, tk, tk.ci + 1)]
    /\ UNCHANGED <<now, monitoredUsers, activeStory, feed, nextId,
                   _lastPostCheck, rm, timerDue, commands,
                   followerHistory>>

\* ---- the story check: checkStories 578-591, _processStoryResult 598-630 ----

\* The timer of a loop fires (594, 700), or start() runs the initial pass
\* (593, 699): the callback awaits the enumeration of the identities.
CycleStart(t) ==
    /\ \A l \in LoopTasks : task[l].pc = "idle"
    /\ now >= timerDue[t]
    /\ task' = [task EXCEPT ![t] = [@ EXCEPT !.pc = "enum", !.cycle = @ + 1]]
    /\ timerDue' = [timerDue EXCEPT ![t] = now + IntervalOf(t)]
    /\ UNCHANGED <<now, monitoredUsers, activeStory, feed, storyHistory,
                   postHistory, nextId, _lastPostCheck, rm, commands, log,
                   followerHistory>>

\* _checkNewPosts up to its first await (221-231): within five minutes of
\* the last check of the identity it returns at once and the loop sleeps;
\* otherwise it records the check and awaits fetchAllPosts.
CheckNewPostsEntry(t, tk) ==
    IF now - _lastPostCheck[tk.user] < 1
    THEN /\ task' = [task EXCEPT ![t] = ToDelay(tk)]
         /\ UNCHANGED _lastPostCheck
    ELSE /\ task' = [task EXCEPT ![t] = [tk EXCEPT !.pc = "fetch"]]
         /\ _lastPostCheck' = [_lastPostCheck EXCEPT ![tk.user] = now]

\* The for loop over usernames at position i (582, 689).  Past the last
\* identity the callback returns; the initial pass then creates the timer.
LoopAdvance(t, tk, i) ==
    IF i > Len(tk.users)
    THEN /\ task' = [task EXCEPT ![t] = [tk EXCEPT !.pc = "idle", !.users = <<>>,
                                                   !.idx = 0]]
         /\ timerDue' = IF tk.cycle = 1
                        THEN [timerDue EXCEPT ![t] = now + IntervalOf(t)]
                        ELSE timerDue
         /\ UNCHANGED _lastPostCheck
    ELSE LET at == [tk EXCEPT !.user = tk.users[i], !.idx = i]
         IN  /\ UNCHANGED timerDue
             /\ IF t = "storyLoop"
                THEN /\ task' = [task EXCEPT ![t] = [at EXCEPT !.pc = "fetch"]]
                     /\ UNCHANGED _lastPostCheck
                ELSE CheckNewPostsEntry(t, at)

\* _getUniqueMonitoredAccounts returns (581, 688).
UsernamesReturn(t) ==
    /\ task[t].pc = "enum"
    /\ LoopAdvance(t, [task[t] EXCEPT !.users = SeqOf(UserOrder, TrackedUsers)], 1)
    /\ UNCHANGED <<now, monitoredUsers, activeStory, feed, storyHistory,
                   postHistory, nextId, rm, commands, log,
                   followerHistory>>

\* The sleep after an identity is over (586, 692).
LoopDelayReturn(t) ==
    /\ task[t].pc = "delay"
    /\ LoopAdvance(t, ClearWork(task[t]), task[t].idx + 1)
    /\ UNCHANGED <<now, monitoredUsers, activeStory, feed, storyHistory,
                   postHistory, nextId, rm, commands, log,
                   followerHistory>>

\* fetchStoryData never throws (79-103 of the provider): it reports the
\* active story, no_stories, or an error.
StoryResults(u) ==
    (IF activeStory[u] = NULL THEN {"no_stories"} ELSE {"ok"}) \cup {"error"}

\* Where a story chain stands once fetchStoryData has returned.  The loop
\* calls _processStoryResult, which awaits the findOne only for an ok result
\* (599-603) and otherwise returns; the add command first sends its notice
\* (60-65).
AfterStoryFetch(t, tk, res) ==
    LET m == activeStory[tk.user]
        got == Observe(t, [tk EXCEPT !.media = m], {m})
        obs == [got EXCEPT !.lastSeen[tk.user] = <<tk.cycle, m>>,
                           !.repeat = (tk.lastSeen[tk.user] = <<tk.cycle - 1, m>>)]
    IN  IF t = "storyLoop"
        THEN IF res = "ok" THEN [obs EXCEPT !.pc = "findLast"]
             ELSE ToDelay([tk EXCEPT !.lastSeen[tk.user] = <<tk.cycle, NULL>>])
        ELSE IF res = "ok" THEN [got EXCEPT !.pc = "addNotice"]
             ELSE IF res = "no_stories" THEN [tk EXCEPT !.pc = "addInfo"]
             ELSE IdleTask

StoryFetchReturn(t, res) ==
    /\ task[t].pc = "fetch"
    /\ res \in StoryResults(task[t].user)
    /\ task' = [task EXCEPT ![t] = AfterStoryFetch(t, task[t], res)]
    /\ UNCHANGED <<now, monitoredUsers, activeStory, feed, storyHistory,
                   postHistory, nextId, _lastPostCheck, rm, timerDue, commands, log,
                   followerHistory>>

\* findOne({username}).sort({processedAt: -1}): the records of the identity
\* with the latest processedAt.
Latest(coll, u) ==
    {r \in coll : /\ r.username = u
                  /\ \A q \in coll : q.username = u => q.processedAt <= r.processedAt}

\* isNewStory (607-609): no record of the identity, or the latest one was
\* processed more than five minutes ago.
isNewStory(u) ==
    \/ Latest(storyHistory, u) = {}
    \/ \E r \in Latest(storyHistory, u) : now - r.processedAt >= 1

\* The findOne of _processStoryResult returns (601-622): a new story's
\* record is built, stamped with the time, and its save is awaited.
StoryFindLastReturn(t) ==
    /\ task[t].pc = "findLast"
    /\ task' = [task EXCEPT ![t] =
                   IF isNewStory(task[t].user)
                   THEN [task[t] EXCEPT !.pc = "save", !.stamp = now,
                                        !.docSentTo = {}]
                   ELSE CheckOver(t, task[t])]
    /\ UNCHANGED <<now, monitoredUsers, activeStory, feed, storyHistory,
                   postHistory, nextId, _lastPostCheck, rm, timerDue, commands, log,
                   followerHistory>>

\* new StoryHistory / new PostHistory (614-621, 259-268) with sentTo: [].
NewRecord(tk, key) ==
    [id |-> nextId, username |-> tk.user, key |-> key,
     processedAt |-> tk.stamp, sentTo |-> {}]

Saved(t, tk, key) ==
    [tk EXCEPT !.pc = "subs", !.rec = nextId, !.made = @ \cup {key}]

\* storyRecord.save() returns (622): StoryHistory has no unique index, the
\* save succeeds; _notifyStory is entered.
StorySaveReturn(t) ==
    /\ task[t].pc = "save"
    /\ nextId <= MaxRecords
    /\ storyHistory' = storyHistory \cup {NewRecord(task[t], task[t].media)}
    /\ nextId' = nextId + 1
    /\ log' = [log EXCEPT ![nextId].event = <<"story", task[t].user, task[t].media>>]
    /\ task' = [task EXCEPT ![t] = Saved(t, task[t], task[t].media)]
    /\ UNCHANGED <<now, monitoredUsers, activeStory, feed, postHistory,
                   _lastPostCheck, rm, timerDue, commands,
                   followerHistory>>

\* ---- the post check: _checkNewPosts 231-240, _processPostResult 243-274 ----

\* fetchAllPosts returns (226-257 of the provider; it never throws).  An ok
\* result carries the posts of the feed, stamped at the time of the parse,
\* and _processPostResult awaits its findOne; on an error result
\* _checkNewPosts returns.
AfterPostFetch(t, tk, ok) ==
    IF ok
    THEN [Observe(t, tk, feed[tk.user])
              EXCEPT !.pc = "findLast",
                     !.posts = SeqOf(PostOrder, feed[tk.user]),
                     !.stamp = now]
    ELSE ToDelay(tk)

PostFetchReturn(t, ok) ==
    /\ task[t].pc = "fetch"
    /\ task' = [task EXCEPT ![t] = AfterPostFetch(t, task[t], ok)]
    /\ UNCHANGED <<now, monitoredUsers, activeStory, feed, storyHistory,
                   postHistory, nextId, _lastPostCheck, rm, timerDue, commands, log,
                   followerHistory>>

\* The filter of 250-253: a post is new when no post of the identity has
\* been processed, or its timestamp is later than the latest processedAt.
\* The post was stamped after that record was: when both fall in the same
\* hour the post's stamp is the later one.
newPosts(tk) ==
    SelectSeq(tk.posts,
              LAMBDA p : \/ Latest(postHistory, tk.user) = {}
                         \/ \E r \in Latest(postHistory, tk.user) :
                                PostTimestamp(p, tk.stamp) >= r.processedAt)

\* The findOne of _processPostResult returns (245-270): with new posts, the
\* record of the first is built and its save awaited.
PostFindLastReturn(t) ==
    /\ task[t].pc = "findLast"
    /\ task' = [task EXCEPT ![t] =
                   IF newPosts(task[t]) = <<>>
                   THEN ToDelay(task[t])
                   ELSE [task[t] EXCEPT !.pc = "save", !.posts = newPosts(task[t]),
                                        !.pi = 1, !.stamp = now,
                                        !.docSentTo = {}]]
    /\ UNCHANGED <<now, monitoredUsers, activeStory, feed, storyHistory,
                   postHistory, nextId, _lastPostCheck, rm, timerDue, commands, log,
                   followerHistory>>

\* A collection without the unique index.
NoUniqueIndex(u, p) == FALSE

\* The unique index of PostHistory on (username, postId).
DuplicatePost(u, p) == \E r \in postHistory : r.username = u /\ r.key = p

\* postRecord.save() returns (270).  A duplicate key makes it throw: the
\* exception leaves _processPostResult and is caught in _checkNewPosts
\* (238-240), which returns.  Otherwise _notifyPost is entered.
PostSaveReturn(t) ==
    /\ task[t].pc = "save"
    /\ LET tk == task[t]
           p == tk.posts[tk.pi]
       IN  IF DuplicatePost(tk.user, p)
           THEN /\ task' = [task EXCEPT ![t] = ToDelay(tk)]
                /\ UNCHANGED <<postHistory, nextId, log>>
           ELSE /\ nextId <= MaxRecords
                /\ postHistory' = postHistory \cup {NewRecord(tk, p)}
                /\ nextId' = nextId + 1
                /\ log' = [log EXCEPT ![nextId].event = <<"post", tk.user, p>>]
                /\ task' = [task EXCEPT ![t] = Saved(t, tk, p)]
    /\ UNCHANGED <<now, monitoredUsers, activeStory, feed, storyHistory,
                   _lastPostCheck, rm, timerDue, commands,
                   followerHistory>>

\* ---- addAccount 31-70 ----

\* The /add command arrives with a well-formed username: findOne is awaited.
AddCall(u, ch) ==
    /\ commands < MaxCommands
    /\ task["addFlow"].pc = "idle"
    /\ commands' = commands + 1
    /\ task' = [task EXCEPT !["addFlow"] =
                   [IdleTask EXCEPT !.pc = "addFind", !.user = u, !.chat = ch]]
    /\ UNCHANGED <<now, monitoredUsers, activeStory, feed, storyHistory,
                   postHistory, nextId, _lastPostCheck, rm, timerDue, log,
                   followerHistory>>

\* findOne returns (42-48): an existing subscription ends the command with a
\* message; otherwise the save of the subscription is awaited.
AddFindReturn ==
    /\ task["addFlow"].pc = "addFind"
    /\ LET tk == task["addFlow"]
       IN  task' = [task EXCEPT !["addFlow"] =
                       IF tk.chat \in SubscribersOf(tk.user)
                       THEN IdleTask
                       ELSE [tk EXCEPT !.pc = "addSave"]]
    /\ UNCHANGED <<now, monitoredUsers, activeStory, feed, storyHistory,
                   postHistory, nextId, _lastPostCheck, rm, timerDue, commands, log,
                   followerHistory>>

\* The save returns (48-56): the subscription is stored, the acknowledgement
\* is sent and the forced profile check of the identity is awaited.
AddSaveReturn ==
    /\ task["addFlow"].pc = "addSave"
    /\ LET tk == task["addFlow"]
       IN  /\ monitoredUsers' = monitoredUsers \cup
                                    {[username |-> tk.user, chatId |-> tk.chat]}
           /\ task' = [task EXCEPT !["addFlow"] = [tk EXCEPT !.pc = "addProfile"]]
    /\ UNCHANGED <<now, activeStory, feed, storyHistory, postHistory, nextId,
                   _lastPostCheck, rm, timerDue, commands, log,
                   followerHistory>>

\* findOne({username}).sort({createdAt: -1}) on FollowerHistory (209, 327).
LatestSnapshot(u) ==
    IF followerHistory[u] = <<>> THEN NoSnapshot
    ELSE followerHistory[u][Len(followerHistory[u])]

\* _processProfileData 327-331 on the collection: the snapshot is appended
\* when the detector reports a change against the latest one, or there is
\* none.
Processed(u, data) ==
    IF _detectChanges(data, LatestSnapshot(u)).hasChanged
    THEN [followerHistory EXCEPT ![u] = Append(@, data)]
    ELSE followerHistory

\* checkSingleAccount returns or throws (56-59, 66-69): it has saved a
\* snapshot of an identity that had none (_processProfileData 327-331), and
\* the story of the identity is fetched; an exception ends the command with
\* a warning.
AddProfileReturn(threw) ==
    /\ task["addFlow"].pc = "addProfile"
    /\ task' = [task EXCEPT !["addFlow"] =
                   IF threw THEN IdleTask ELSE [@ EXCEPT !.pc = "fetch"]]
    /\ followerHistory' = IF threw THEN followerHistory
                          ELSE LET u == task["addFlow"].user
                               IN  Processed(u, fetchProfileData(api[u], u, TRUE))
    /\ UNCHANGED <<now, monitoredUsers, activeStory, feed, storyHistory,
                   postHistory, nextId, _lastPostCheck, rm, timerDue, commands, log>>

\* The message that precedes the story check (61-62) or reports that there
\* is no story (64) has been sent, or was rejected (66-69).
AddNoticeReturn(threw) ==
    /\ task["addFlow"].pc \in {"addNotice", "addInfo"}
    /\ task' = [task EXCEPT !["addFlow"] =
                   IF threw \/ @.pc = "addInfo" THEN IdleTask
                   ELSE [@ EXCEPT !.pc = "findLast"]]
    /\ UNCHANGED <<now, monitoredUsers, activeStory, feed, storyHistory,
                   postHistory, nextId, _lastPostCheck, rm, timerDue, commands, log,
                   followerHistory>>

\* ---- removeAccount 72-93 ----

\* The /remove command arrives: deleteOne is awaited.
RemoveCall(u, ch) ==
    /\ commands < MaxCommands
    /\ rm.pc = "idle"
    /\ commands' = commands + 1
    /\ rm' = [IdleRm EXCEPT !.pc = "deleteOne", !.user = u, !.chat = ch]
    /\ UNCHANGED <<now, monitoredUsers, activeStory, feed, storyHistory,
                   postHistory, nextId, _lastPostCheck, task, timerDue, log,
                   followerHistory>>

\* deleteOne returns (73-76): with a subscription deleted the count of the
\* remaining ones is awaited; otherwise the command ends with a message.
RemoveDeleteOneReturn ==
    /\ rm.pc = "deleteOne"
    /\ LET sub == [username |-> rm.user, chatId |-> rm.chat]
       IN  /\ monitoredUsers' = monitoredUsers \ {sub}
           /\ rm' = IF sub \in monitoredUsers THEN [rm EXCEPT !.pc = "count"]
                    ELSE IdleRm
    /\ UNCHANGED <<now, activeStory, feed, storyHistory, postHistory, nextId,
                   _lastPostCheck, task, timerDue, commands, log,
                   followerHistory>>

\* countDocuments returns (76-84): with no subscriber left the deleteMany of
\* the history collections are issued together.
Collections == {"follower", "story", "post"}

\* A count that is not looked at: the history is deleted with every removal.
RemoveCountReturnCascades ==
    /\ rm.pc = "count"
    /\ rm' = [rm EXCEPT !.pc = "deleteMany", !.pending = Collections]
    /\ UNCHANGED <<now, monitoredUsers, activeStory, feed, storyHistory,
                   postHistory, nextId, _lastPostCheck, task, timerDue, commands, log,
                   followerHistory>>

RemoveCountReturn ==
    /\ rm.pc = "count"
    /\ rm' = IF SubscribersOf(rm.user) = {}
             THEN [rm EXCEPT !.pc = "deleteMany", !.pending = Collections]
             ELSE IdleRm
    /\ UNCHANGED <<now, monitoredUsers, activeStory, feed, storyHistory,
                   postHistory, nextId, _lastPostCheck, task, timerDue, commands, log,
                   followerHistory>>

\* One deleteMany of the Promise.all (80-84) takes effect; with the last one
\* the command ends.
RemoveDeleteManyReturn(k) ==
    /\ rm.pc = "deleteMany"
    /\ k \in rm.pending
    /\ storyHistory' = IF k = "story"
                       THEN {r \in storyHistory : r.username # rm.user}
                       ELSE storyHistory
    /\ postHistory' = IF k = "post"
                      THEN {r \in postHistory : r.username # rm.user}
                      ELSE postHistory
    /\ followerHistory' = IF k = "follower"
                          THEN [followerHistory EXCEPT ![rm.user] = <<>>]
                          ELSE followerHistory
    /\ rm' = IF rm.pending = {k} THEN IdleRm ELSE [rm EXCEPT !.pending = @ \ {k}]
    /\ UNCHANGED <<now, monitoredUsers, activeStory, feed, nextId,
                   _lastPostCheck, task, timerDue, commands, log>>

\* The loops and the remove command.
NextLedger ==
    \/ Tick /\ UNCHANGED exceptLedger
    \/ \E u \in Users : StoryChanges(u) /\ UNCHANGED exceptLedger
    \/ \E u \in Users, p \in Posts : PostPublished(u, p) /\ UNCHANGED exceptLedger
    \/ \E t \in LoopTasks : CycleStart(t) /\ UNCHANGED exceptLedger
    \/ \E t \in LoopTasks : UsernamesReturn(t) /\ UNCHANGED exceptLedger
    \/ \E t \in LoopTasks : LoopDelayReturn(t) /\ UNCHANGED exceptLedger
    \/ \E res \in {"ok", "no_stories", "error"} :
           StoryFetchReturn("storyLoop", res) /\ UNCHANGED exceptLedger
    \/ StoryFindLastReturn("storyLoop") /\ UNCHANGED exceptLedger
    \/ StorySaveReturn("storyLoop") /\ UNCHANGED exceptLedger
    \/ \E ok \in BOOLEAN : PostFetchReturn("postLoop", ok) /\ UNCHANGED exceptLedger
    \/ PostFindLastReturn("postLoop") /\ UNCHANGED exceptLedger
    \/ PostSaveReturn("postLoop") /\ UNCHANGED exceptLedger
    \/ \E t \in LoopTasks : NotifySubsReturn(t) /\ UNCHANGED exceptLedger
    \/ \E t \in LoopTasks, ok \in BOOLEAN : SendReturn(t, ok) /\ UNCHANGED exceptLedger
    \/ \E t \in LoopTasks, ok \in BOOLEAN :
           FallbackReturn(t, ok) /\ UNCHANGED exceptLedger
    \/ \E t \in LoopTasks : MarkReturn(t) /\ UNCHANGED exceptLedger
    \/ \E u \in Users, ch \in Chats : RemoveCall(u, ch) /\ UNCHANGED exceptLedger
    \/ RemoveDeleteOneReturn /\ UNCHANGED exceptLedger
    \/ RemoveCountReturn /\ UNCHANGED exceptLedger
    \/ \E k \in Collections : RemoveDeleteManyReturn(k) /\ UNCHANGED exceptLedger

\* The add and the remove command.
NextAdd ==
    \/ Tick /\ UNCHANGED exceptLedger
    \/ \E u \in Users : StoryChanges(u) /\ UNCHANGED exceptLedger
    \/ \E u \in Users, ch \in Chats : AddCall(u, ch) /\ UNCHANGED exceptLedger
    \/ AddFindReturn /\ UNCHANGED exceptLedger
    \/ AddSaveReturn /\ UNCHANGED exceptLedger
    \/ \E threw \in BOOLEAN : AddProfileReturn(threw) /\ UNCHANGED exceptLedger
    \/ \E res \in {"ok", "no_stories", "error"} :
           StoryFetchReturn("addFlow", res) /\ UNCHANGED exceptLedger
    \/ \E threw \in BOOLEAN : AddNoticeReturn(threw) /\ UNCHANGED exceptLedger
    \/ StoryFindLastReturn("addFlow") /\ UNCHANGED exceptLedger
    \/ StorySaveReturn("addFlow") /\ UNCHANGED exceptLedger
    \/ NotifySubsReturn("addFlow") /\ UNCHANGED exceptLedger
    \/ \E ok \in BOOLEAN : SendReturn("addFlow", ok) /\ UNCHANGED exceptLedger
    \/ \E ok \in BOOLEAN : FallbackReturn("addFlow", ok) /\ UNCHANGED exceptLedger
    \/ MarkReturn("addFlow") /\ UNCHANGED exceptLedger
    \/ \E u \in Users, ch \in Chats : RemoveCall(u, ch) /\ UNCHANGED exceptLedger
    \/ RemoveDeleteOneReturn /\ UNCHANGED exceptLedger
    \/ RemoveCountReturn /\ UNCHANGED exceptLedger
    \/ \E k \in Collections : RemoveDeleteManyReturn(k) /\ UNCHANGED exceptLedger

(***************************************************************************)
(* Profile checks: checkSingleAccount 198-217, _processProfileData         *)
(* 326-338, _notifyNewAccount 340-371, _notifyChanges 373-426,             *)
(* _shouldSuppressNotification 451-462.                                    *)
(*                                                                         *)
(* A profile check is called by the profile loop (549) or, forced, by      *)
(* addAccount (55-56) for a subscription it has just saved.  One check     *)
(* runs at a time.  The profile comes from one                             *)
(* provider and the posts from another (part_003 106-131, 226-257): the    *)
(* post count of the profile and the feed change independently.  The 90 s  *)
(* of the suppression window are, like the five minutes, less than the     *)
(* hour of the clock: two reads in the same hour are within the window.    *)
(***************************************************************************)

MaxChecks == 3       \* profile checks begun
MaxEdits == 1        \* changes of the provider's profile

Kinds == {"loop", "add"}
Edits == {"follow", "unfollow", "post", "unpic"}
Outcomes == {"failed", "nostatus", "ok", "okNoHash"}

\* The ledger variables that no step of a profile check writes.
ledgerQuiet == <<now, monitoredUsers, activeStory, storyHistory, postHistory,
                 nextId, rm, timerDue, commands, log>>

\* The locals of checkSingleAccount and of what it calls.  tried and got are
\* history: per chat, the notifications of this check that were attempted
\* and the chats to which one was delivered; fell, the chats whose text-only
\* fallback was awaited; fetched and saved tell whether the fetch gave data
\* and whether the snapshot was appended.  addedAt is the local of
\* _shouldSuppressNotification (454), 0 when it was not read; outcome is
\* what became of the fetch; began is when the check was called; owed, which
\* goes from check to check, holds the identities whose first snapshot was
\* saved with the initial notification suppressed and not called since.
IdleProf ==
    [pc |-> "idle", user |-> NULL, force |-> FALSE, currentData |-> NoSnapshot,
     previousData |-> NoSnapshot, changes |-> NoChanges, notice |-> NULL,
     message |-> <<>>, chats |-> <<>>, ci |-> 0,
     tried |-> [c \in Chats |-> 0], got |-> {}, fell |-> {}, addedAt |-> 0,
     outcome |-> NULL, began |-> 0, owed |-> {}, fetched |-> FALSE, saved |-> FALSE, suppressed |-> FALSE]

ProfileInit ==
    /\ api = [u \in Users |-> FirstApi]
    /\ prof = IdleProf
    /\ _recentlyAddedAccounts = [u \in Users |-> 0]
    /\ checks = 0
    /\ edits = 0

\* The provider's profile after a change.
Edited(a, e) ==
    IF e = "follow" THEN [a EXCEPT !.user_followers = @ + 1]
    ELSE IF e = "unfollow" THEN [a EXCEPT !.user_followers = @ - 1]
    ELSE IF e = "post" THEN [a EXCEPT !.total_posts = @ + 1]
    ELSE [a EXCEPT !.user_profile_pic = ""]

\* The identity's profile changes; the change is taken while the fetch of
\* the profile is outstanding.
ProfileEdit(u, e) ==
    /\ prof.pc = "fetch"
    /\ prof.user = u
    /\ edits < MaxEdits
    /\ e = "unfollow" => api[u].user_followers > 0
    /\ e = "unpic" => api[u].user_profile_pic # ""
    /\ api' = [api EXCEPT ![u] = Edited(@, e)]
    /\ edits' = edits + 1
    /\ UNCHANGED <<ledgerQuiet, feed, followerHistory, task, _lastPostCheck,
                   prof, _recentlyAddedAccounts, checks>>

\* checkSingleAccount is called (199): fetchProfileData is awaited.  The add
\* command notes the time first (55) and forces the initial notification.
CheckCall(u, kind) ==
    /\ prof.pc \in {"idle", "done"}
    /\ task["profileCheck"].pc = "idle"
    /\ checks < MaxChecks
    /\ u \in TrackedUsers
    /\ checks' = checks + 1
    /\ prof' = [IdleProf EXCEPT !.pc = "fetch", !.user = u,
                                !.force = (kind = "add"),
                                !.began = now, !.owed = prof.owed]
    /\ _recentlyAddedAccounts' =
           IF kind = "add" THEN [_recentlyAddedAccounts EXCEPT ![u] = now]
           ELSE _recentlyAddedAccounts
    /\ UNCHANGED <<ledgerQuiet, feed, followerHistory, task, _lastPostCheck,
                   api, edits>>

\* What _parseApiResponse makes of a response without a true status
\* (134-143).
NoStatusData(username) ==
    [username |-> username, userFullname |-> NULL, userProfilePic |-> NULL,
     userProfilePicHash |-> NULL, isPrivate |-> NULL, followersCount |-> 0,
     followingCount |-> 0, postsCount |-> 0, isVerified |-> NULL]

\* A check that does not look at the status of the response (206).
ProfileFetchReturnAnyStatus(outcome) ==
    /\ prof.pc = "fetch"
    /\ prof' = IF outcome = "failed"
               THEN [prof EXCEPT !.pc = "done", !.outcome = outcome]
               ELSE [prof EXCEPT !.pc = "findPrevious", !.fetched = TRUE,
                                 !.outcome = outcome,
                                 !.currentData =
                                     IF outcome = "nostatus"
                                     THEN NoStatusData(prof.user)
                                     ELSE fetchProfileData(api[prof.user],
                                                           prof.user,
                                                           outcome = "ok")]
    /\ UNCHANGED <<ledgerQuiet, feed, followerHistory, task, _lastPostCheck,
                   api, _recentlyAddedAccounts, checks, edits>>

\* fetchProfileData returns (199-209): without success, or without a true
\* status in the response, the check returns null; otherwise the latest
\* snapshot is looked up.  The picture's download may fail (okNoHash).
ProfileFetchReturn(outcome) ==
    /\ prof.pc = "fetch"
    /\ prof' = IF outcome \in {"failed", "nostatus"}
               THEN [prof EXCEPT !.pc = "done", !.outcome = outcome]
               ELSE [prof EXCEPT !.pc = "findPrevious", !.fetched = TRUE,
                                 !.outcome = outcome,
                                 !.currentData =
                                     fetchProfileData(api[prof.user], prof.user,
                                                      outcome = "ok")]
    /\ UNCHANGED <<ledgerQuiet, feed, followerHistory, task, _lastPostCheck,
                   api, _recentlyAddedAccounts, checks, edits>>

\* The findOne of checkSingleAccount returns (209-215): with a snapshot whose
\* post count is lower than the fetched one, _checkNewPosts is called;
\* otherwise _processProfileData, which awaits its own findOne.
FindPreviousReturn ==
    /\ prof.pc = "findPrevious"
    /\ LET previousData == LatestSnapshot(prof.user)
       IN  IF /\ previousData # NoSnapshot
              /\ prof.currentData.postsCount > previousData.postsCount
           THEN /\ prof' = [prof EXCEPT !.pc = "posts"]
                /\ CheckNewPostsEntry("profileCheck",
                                      [IdleTask EXCEPT !.user = prof.user])
           ELSE /\ prof' = [prof EXCEPT !.pc = "findLatest"]
                /\ UNCHANGED <<task, _lastPostCheck>>
    /\ UNCHANGED <<ledgerQuiet, feed, followerHistory, api,
                   _recentlyAddedAccounts, checks, edits>>

\* _checkNewPosts has returned (212-215).
CheckNewPostsReturn ==
    /\ prof.pc = "posts"
    /\ task["profileCheck"].pc = "delay"
    /\ task' = [task EXCEPT !["profileCheck"] = IdleTask]
    /\ prof' = [prof EXCEPT !.pc = "findLatest"]
    /\ UNCHANGED <<ledgerQuiet, feed, followerHistory, _lastPostCheck, api,
                   _recentlyAddedAccounts, checks, edits>>

\* A check that saves whatever the detector reports.
AlwaysSave(ch) == "saveSnapshot"

\* 330: with a change the save of the snapshot is awaited; without, the
\* check returns.
AfterDetect(ch) == IF ch.hasChanged THEN "saveSnapshot" ELSE "done"

\* The findOne of _processProfileData returns (327-331).
ProcessFindReturn ==
    /\ prof.pc = "findLatest"
    /\ LET previousData == LatestSnapshot(prof.user)
           ch == _detectChanges(prof.currentData, previousData)
       IN  prof' = [prof EXCEPT !.previousData = previousData,
                                !.changes = ch,
                                !.pc = AfterDetect(ch)]
    /\ UNCHANGED <<ledgerQuiet, feed, followerHistory, task, _lastPostCheck,
                   api, _recentlyAddedAccounts, checks, edits>>

\* A test of the window that does not look at the force flag.
SuppressInWindow(username, force) ==
    /\ _recentlyAddedAccounts[username] # 0
    /\ now - _recentlyAddedAccounts[username] < 1

\* _shouldSuppressNotification (451-462).
_shouldSuppressNotification(username, force) ==
    /\ ~force
    /\ _recentlyAddedAccounts[username] # 0
    /\ now - _recentlyAddedAccounts[username] < 1

\* The entry of a past window is deleted by the call (460).
AfterSuppressCheck(username, force) ==
    IF /\ ~force
       /\ _recentlyAddedAccounts[username] # 0
       /\ ~(now - _recentlyAddedAccounts[username] < 1)
    THEN [_recentlyAddedAccounts EXCEPT ![username] = 0]
    ELSE _recentlyAddedAccounts

\* A line that leaves the sign out.
LineUnsigned(diff) ==
    IF diff = 0 THEN <<>> ELSE <<"", IF diff > 0 THEN diff ELSE 0 - diff>>

\* A line of the change message (380-393): absent for a zero delta, else
\* the prefix ('+' for a positive delta) and the number as toLocaleString
\* prints it, with its minus sign when negative.
Line(diff) ==
    IF diff = 0 THEN <<>> ELSE <<IF diff > 0 THEN "+" ELSE "", diff>>

\* changeMessage (378-416).
ChangeMessage(ch) ==
    [followers |-> Line(ch.followerDiff),
     following |-> Line(ch.followingDiff),
     posts |-> Line(ch.postsDiff),
     verified |-> ch.verifiedChanged,
     privacy |-> ch.privateChanged,
     name |-> ch.nameChanged,
     picture |-> ch.profilePicChanged]

\* The save of the snapshot returns (331-335): with a previous snapshot
\* _notifyChanges is called, without one _notifyNewAccount unless the
\* notification is suppressed; both await the list of the subscribers.
SnapshotSaveReturn ==
    /\ prof.pc = "saveSnapshot"
    /\ followerHistory' = [followerHistory EXCEPT
                              ![prof.user] = Append(@, prof.currentData)]
    /\ IF prof.previousData # NoSnapshot
       THEN /\ prof' = [prof EXCEPT !.pc = "subs", !.saved = TRUE,
                                    !.notice = "changes",
                                    !.message = ChangeMessage(prof.changes)]
            /\ UNCHANGED _recentlyAddedAccounts
       ELSE /\ prof' = [IF _shouldSuppressNotification(prof.user, prof.force)
                        THEN [prof EXCEPT !.pc = "done", !.saved = TRUE,
                                          !.suppressed = TRUE,
                                          !.owed = @ \cup {prof.user}]
                        ELSE [prof EXCEPT !.pc = "subs", !.saved = TRUE,
                                          !.notice = "new",
                                          !.owed = @ \ {prof.user}]
                          EXCEPT !.addedAt = IF prof.force THEN 0
                                             ELSE _recentlyAddedAccounts[prof.user]]
            /\ _recentlyAddedAccounts' = AfterSuppressCheck(prof.user, prof.force)
    /\ UNCHANGED <<ledgerQuiet, feed, task, _lastPostCheck, api, checks, edits>>

\* A save that is taken for done although it rejected: the notification is
\* called for a snapshot that was not stored.
SnapshotSaveRejectsAndNotifies ==
    /\ prof.pc = "saveSnapshot"
    /\ prof' = [prof EXCEPT !.pc = "subs", !.outcome = "rejected",
                            !.notice = IF prof.previousData # NoSnapshot
                                       THEN "changes" ELSE "new",
                            !.message = IF prof.previousData # NoSnapshot
                                        THEN ChangeMessage(prof.changes)
                                        ELSE @]
    /\ UNCHANGED <<ledgerQuiet, feed, followerHistory, task, _lastPostCheck,
                   api, _recentlyAddedAccounts, checks, edits>>

\* The save of the snapshot rejects (331): the await throws out of
\* _processProfileData and of checkSingleAccount (215) to the caller's catch
\* (553, 62), so neither 333-334 nor 337 is reached; nothing was stored.
SnapshotSaveRejects ==
    /\ prof.pc = "saveSnapshot"
    /\ prof' = [prof EXCEPT !.pc = "done", !.outcome = "rejected"]
    /\ UNCHANGED <<ledgerQuiet, feed, followerHistory, task, _lastPostCheck,
                   api, _recentlyAddedAccounts, checks, edits>>

\* The for loop over uniqueChatIds at position i (347, 418): the send to the
\* chat is awaited; past the last chat the notification and the check
\* return.
ProfNextChat(p, i) ==
    IF i > Len(p.chats) THEN [p EXCEPT !.pc = "done"]
    ELSE [p EXCEPT !.pc = "send", !.ci = i, !.tried[p.chats[i]] = @ + 1]

\* MonitoredUser.find({username}) returns (341-342, 374-375).
ProfileSubsReturn ==
    /\ prof.pc = "subs"
    /\ prof' = ProfNextChat([prof EXCEPT !.chats =
                                SeqOf(ChatOrder, SubscribersOf(prof.user))], 1)
    /\ UNCHANGED <<ledgerQuiet, feed, followerHistory, task, _lastPostCheck,
                   api, _recentlyAddedAccounts, checks, edits>>

\* A fan-out that a failed send ends.
AfterProfileSendStops(p, ok) ==
    IF ok THEN ProfNextChat([p EXCEPT !.got = @ \cup {p.chats[p.ci]}], p.ci + 1)
    ELSE [p EXCEPT !.pc = "done"]

\* Where the check stands after the send to a chat: sendMessage of
\* _notifyChanges (420) and of _notifyNewAccount without a picture (361),
\* sendPhoto with one (350).  A rejected sendPhoto is followed by the
\* text-only sendMessage (353-358); any other rejection is caught by the
\* loop body (367, 422) and the loop goes on.
AfterProfileSend(p, ok) ==
    IF ok THEN ProfNextChat([p EXCEPT !.got = @ \cup {p.chats[p.ci]}], p.ci + 1)
    ELSE IF p.notice = "new" /\ p.currentData.userProfilePic # NULL
         THEN [p EXCEPT !.pc = "fallback", !.fell = @ \cup {p.chats[p.ci]}]
         ELSE ProfNextChat(p, p.ci + 1)

ProfileSendReturn(ok) ==
    /\ prof.pc = "send"
    /\ prof' = AfterProfileSend(prof, ok)
    /\ UNCHANGED <<ledgerQuiet, feed, followerHistory, task, _lastPostCheck,
                   api, _recentlyAddedAccounts, checks, edits>>

\* The text-only sendMessage of _notifyNewAccount returns (355-358); its
\* rejection is caught by the loop body (367).
ProfileFallbackReturn(ok) ==
    /\ prof.pc = "fallback"
    /\ prof' = ProfNextChat([prof EXCEPT !.got =
                                IF ok THEN @ \cup {prof.chats[prof.ci]} ELSE @],
                            prof.ci + 1)
    /\ UNCHANGED <<ledgerQuiet, feed, followerHistory, task, _lastPostCheck,
                   api, _recentlyAddedAccounts, checks, edits>>

\* The profile checks with the post checks they start.
NextProfile ==
    \/ Tick /\ UNCHANGED exceptLedger
    \/ \E u \in Users, kind \in Kinds : CheckCall(u, kind) /\ UNCHANGED exceptProfile
    \/ \E u \in Users, e \in Edits : ProfileEdit(u, e) /\ UNCHANGED exceptProfile
    \/ \E outcome \in Outcomes : ProfileFetchReturn(outcome) /\ UNCHANGED exceptProfile
    \/ FindPreviousReturn /\ UNCHANGED exceptProfile
    \/ CheckNewPostsReturn /\ UNCHANGED exceptProfile
    \/ ProcessFindReturn /\ UNCHANGED exceptProfile
    \/ SnapshotSaveReturn /\ UNCHANGED exceptProfile
    \/ ProfileSubsReturn /\ UNCHANGED exceptProfile
    \/ \E ok \in BOOLEAN : ProfileSendReturn(ok) /\ UNCHANGED exceptProfile
    \/ \E ok \in BOOLEAN : ProfileFallbackReturn(ok) /\ UNCHANGED exceptProfile
    \/ \E u \in Users, p \in ProfilePosts : PostPublished(u, p) /\ UNCHANGED exceptLedger
    \/ \E ok \in BOOLEAN : PostFetchReturn("profileCheck", ok) /\ UNCHANGED exceptLedger
    \/ PostFindLastReturn("profileCheck") /\ UNCHANGED exceptLedger
    \/ PostSaveReturn("profileCheck") /\ UNCHANGED exceptLedger
    \/ NotifySubsReturn("profileCheck") /\ UNCHANGED exceptLedger
    \/ \E ok \in BOOLEAN : SendReturn("profileCheck", ok) /\ UNCHANGED exceptLedger
    \/ \E ok \in BOOLEAN : FallbackReturn("profileCheck", ok) /\ UNCHANGED exceptLedger
    \/ MarkReturn("profileCheck") /\ UNCHANGED exceptLedger

\* The profile checks over a store whose save of a snapshot may reject.
NextPersist ==
    \/ NextProfile
    \/ SnapshotSaveRejects /\ UNCHANGED exceptProfile

\* The post loop next to the post checks that profile checks start.  The
\* profile is fetched with its picture, its post count grows, and every send
\* is delivered: what is left open is the order of the steps of the two
\* chains and what the feed shows.
NextPosts ==
    \/ Tick /\ UNCHANGED exceptLedger
    \/ \E u \in Users : CheckCall(u, "loop") /\ UNCHANGED exceptProfile
    \/ \E u \in Users : ProfileEdit(u, "post") /\ UNCHANGED exceptProfile
    \/ ProfileFetchReturn("ok") /\ UNCHANGED exceptProfile
    \/ FindPreviousReturn /\ UNCHANGED exceptProfile
    \/ CheckNewPostsReturn /\ UNCHANGED exceptProfile
    \/ ProcessFindReturn /\ UNCHANGED exceptProfile
    \/ SnapshotSaveReturn /\ UNCHANGED exceptProfile
    \/ ProfileSubsReturn /\ UNCHANGED exceptProfile
    \/ ProfileSendReturn(TRUE) /\ UNCHANGED exceptProfile
    \/ \E u \in Users, p \in ProfilePosts : PostPublished(u, p) /\ UNCHANGED exceptLedger
    \/ CycleStart("postLoop") /\ UNCHANGED exceptLedger
    \/ UsernamesReturn("postLoop") /\ UNCHANGED exceptLedger
    \/ LoopDelayReturn("postLoop") /\ UNCHANGED exceptLedger
    \/ \E t \in PostTasks : PostFetchReturn(t, TRUE) /\ UNCHANGED exceptLedger
    \/ \E t \in PostTasks : PostFindLastReturn(t) /\ UNCHANGED exceptLedger
    \/ \E t \in PostTasks : PostSaveReturn(t) /\ UNCHANGED exceptLedger
    \/ \E t \in PostTasks : NotifySubsReturn(t) /\ UNCHANGED exceptLedger
    \/ \E t \in PostTasks : SendReturn(t, TRUE) /\ UNCHANGED exceptLedger
    \/ \E t \in PostTasks : MarkReturn(t) /\ UNCHANGED exceptLedger

(***************************************************************************)
(* Properties of the ledger.                                               *)
(***************************************************************************)

\* The events that have had a record, and the records of an event.
Events == {log[i].event : i \in Ids} \ {<<>>}
RecordsOf(e) == {i \in Ids : log[i].event = e}

RECURSIVE Total(_, _, _)
Total(S, c, field) ==
    IF S = {} THEN 0
    ELSE LET i == CHOOSE x \in S : TRUE
         IN  (IF field = "ok" THEN log[i].to[c].ok ELSE log[i].to[c].marked)
                 + Total(S \ {i}, c, field)

\* C1: for one event (one story medium or one post id of one identity),
\* over all the records the checks have made of it and all the runs of the
\* notify path, a subscriber is delivered the event at most once and is
\* newly added to a sentTo set of the event at most once.
C1_AtMostOncePerTarget ==
    \A e \in Events, c \in Chats :
        /\ Total(RecordsOf(e), c, "ok") <= 1
        /\ Total(RecordsOf(e), c, "marked") <= 1

\* C2: when the story loop has observed, for one identity, the same medium
\* in the previous cycle and in this one, this cycle decides that the story
\* is not new: it makes no record and enters no fan-out.
C2_RepeatedStoryNotNew ==
    task["storyLoop"].repeat =>
        /\ task["storyLoop"].pc \notin {"save", "subs", "send", "fallback", "mark"}
        /\ task["storyLoop"].made = {}

\* C8: an identity with history records (snapshots, story records or post
\* records) has at least one subscriber, or its removal is in progress.
C8_NoOrphanHistory ==
    \A u \in Users :
        (followerHistory[u] # <<>>
            \/ \E r \in storyHistory \cup postHistory : r.username = u)
        => (SubscribersOf(u) # {} \/ (rm.pc # "idle" /\ rm.user = u))

\* C9: with the subscriptions left alone, when the check of an identity by a
\* loop has observed events that have a record and subscribers that are in
\* no sentTo set of it, then by the end of the check it has made no further
\* record of such an event, has attempted no subscriber that was in a sentTo
\* set, and has attempted every subscriber that was not.
C9_RetryOnlyUnnotified ==
    \A t \in LoopTasks :
        (task[t].pc = "delay" /\ commands = 0 /\ task[t].owed # {})
        => /\ task[t].made \cap task[t].seen = {}
           /\ task[t].tried \cap task[t].already = {}
           /\ task[t].owed \subseteq task[t].tried

\* The chain that has delivered record id to chat c and awaits the updateOne.
Marking(id, c) ==
    \E t \in Tasks : /\ task[t].pc = "mark"
                     /\ task[t].rec = id
                     /\ task[t].chats[task[t].ci] = c

C11_OneStoryRecordPerMedium ==
    \A r, q \in storyHistory :
        (r.username = q.username /\ r.key = q.key) => r.id = q.id

\* The posts of a sequence of fetched posts.
Range(s) == {s[i] : i \in 1..Len(s)}

\* The posts the filter of _processPostResult lets through in a step that
\* takes a post chain out of its findOne.
TreatedNew(t) ==
    IF task'[t].pc = "save" THEN Range(task'[t].posts) ELSE {}

\* C13: when the findOne of _processPostResult returns, the fetched posts
\* that are treated as new (a record is built for them) are exactly the
\* fetched posts of which the identity has no PostHistory record.
C13_NewIffNotRecorded ==
    [][\A t \in PostTasks :
          (task[t].pc = "findLast" /\ task'[t].pc # "findLast")
          => TreatedNew(t) = {p \in Range(task[t].posts) :
                                  ~DuplicatePost(task[t].user, p)}]_vars

\* C12: the post collection holds at most one record per identity and
\* postId, whatever the post loop and the post checks of the profile checks
\* have done, and in whatever order: two post records of the same identity
\* with the same postId are the same record.
C12_OnePostRecordPerId ==
    \A r, q \in postHistory :
        (r.username = q.username /\ r.key = q.key) => r.id = q.id

\* C12, witness: the post check of a profile check has tried to save a
\* record of a post of which the post loop had saved one in the meantime,
\* and was refused: it has left its batch at a post that has a record it
\* did not make.
C12_Witness ==
    LET tk == task["profileCheck"]
    IN  /\ tk.pc = "delay"
        /\ tk.pi > 0
        /\ tk.posts[tk.pi] \notin tk.made
        /\ tk.posts[tk.pi] \in task["postLoop"].made
        /\ DuplicatePost(tk.user, tk.posts[tk.pi])

\* C14: a save that is refused for a duplicate key is passed over: the for
\* loop of _processPostResult goes on to the next new post of the batch,
\* whose save is awaited.
C14_DuplicateSkipsOnePost ==
    [][\A t \in PostTasks :
          (/\ task[t].pc = "save"
           /\ task'[t] # task[t]
           /\ DuplicatePost(task[t].user, task[t].posts[task[t].pi])
           /\ task[t].pi < Len(task[t].posts))
          => /\ task'[t].pc = "save"
             /\ task'[t].pi = task[t].pi + 1]_vars

(***************************************************************************)
(* Properties of the profile checks.                                       *)
(***************************************************************************)

HashFetchFailed(p) ==
    /\ p.previousData # NoSnapshot
    /\ p.currentData.userProfilePic # NULL
    /\ p.currentData.userProfilePic = p.previousData.userProfilePic
    /\ (p.currentData.userProfilePicHash = NULL)
           # (p.previousData.userProfilePicHash = NULL)
    /\ [p.currentData EXCEPT
           !.userProfilePicHash = p.previousData.userProfilePicHash]
         = p.previousData

\* C18: a check in which the download of an unchanged picture failed, on
\* its side or on the side of the previous snapshot, all else being equal,
\* raises no profilePicChanged signal, saves no snapshot and sends no
\* change notification.
C18_FailedHashIsNoTransition ==
    HashFetchFailed(prof) =>
        /\ ~prof.changes.profilePicChanged
        /\ ~prof.saved
        /\ prof.pc \notin {"saveSnapshot", "subs", "send", "fallback"}

\* The check has a previous snapshot that differs from the fetched data in
\* the follower count and in nothing else.
FollowersOnly(p) ==
    /\ p.previousData # NoSnapshot
    /\ p.currentData.followersCount # p.previousData.followersCount
    /\ [p.currentData EXCEPT !.followersCount = p.previousData.followersCount]
         = p.previousData

\* C19: a check that found the follower count changed by d, all else being
\* equal, has by its end computed followerDiff = d, appended the fetched
\* data as the latest snapshot, and sent every subscriber of the identity
\* one change notification, whose followers line carries d with its sign.
C19_FollowerDeltaNotified ==
    (prof.pc = "done" /\ FollowersOnly(prof)) =>
        LET d == prof.currentData.followersCount
                     - prof.previousData.followersCount
        IN  /\ prof.changes.followerDiff = d
            /\ prof.saved
            /\ LatestSnapshot(prof.user) = prof.currentData
            /\ prof.notice = "changes"
            /\ \A c \in Chats :
                   prof.tried[c] = IF c \in SubscribersOf(prof.user) THEN 1 ELSE 0
            /\ prof.message.followers = <<IF d > 0 THEN "+" ELSE "", d>>

\* C19, witness: a check has ended that found one follower less; the
\* identity has two subscribers and each was sent one notification.
C19_Witness ==
    /\ prof.pc = "done"
    /\ FollowersOnly(prof)
    /\ prof.changes.followerDiff = -1
    /\ prof.tried = [c \in Chats |-> 1]

\* Every chat up to position n of a profile notification has been sent it
\* once.
ProfileTriedUpTo(n) ==
    \A i \in 1..n : prof.tried[prof.chats[i]] = 1

\* Every chat up to position n of the fan-out of a story or post chain has
\* been attempted, unless the record in memory lists it as notified.
TriedUpTo(t, n) ==
    \A j \in 1..n :
        \/ task[t].chats[j] \in task[t].docSentTo
        \/ <<KeyOf(t, task[t]), task[t].chats[j]>> \in task[t].tried

\* C20: in each fan-out (change notification, initial notification, story,
\* post) every chat of the list up to the current one has been attempted
\* whatever became of the sends to the chats before it, and when the
\* fan-out is over every chat of the list has been; and no step takes a
\* chat out of a sentTo set, takes back a delivery, or takes a chat out of
\* the chats a profile notification has reached.
C20_FailureDoesNotStopFanOut ==
    /\ [](/\ prof.pc \in {"send", "fallback"} => ProfileTriedUpTo(prof.ci)
          /\ (prof.pc = "done" /\ prof.notice # NULL)
                 => ProfileTriedUpTo(Len(prof.chats))
          /\ \A t \in Tasks :
                /\ task[t].pc \in {"send", "fallback", "mark"}
                       => TriedUpTo(t, task[t].ci)
                /\ (task[t].pc = "delay" /\ task[t].rec # 0)
                       => TriedUpTo(t, Len(task[t].chats)))
    /\ [][/\ \A r \in storyHistory \cup postHistory :
                 \A q \in storyHistory' \cup postHistory' :
                     q.id = r.id => r.sentTo \subseteq q.sentTo
          /\ \A i \in Ids, c \in Chats : log'[i].to[c].ok >= log[i].to[c].ok
          /\ (prof.pc \in {"send", "fallback"}) => prof.got \subseteq prof'.got]_vars

\* C20, witness: a change or initial notification is over in which the
\* send to the first chat failed for good and the second chat was reached,
\* after a post fan-out of the same check in which both sends to the first
\* chat failed and the second chat was delivered and marked.
C20_Witness ==
    /\ prof.pc = "done"
    /\ prof.chats = <<"c1", "c2">>
    /\ prof.got = {"c2"}
    /\ \E r \in postHistory :
          /\ log[r.id].to["c1"].failed = 1
          /\ log[r.id].to["c2"].ok = 1
          /\ r.sentTo = {"c2"}

\* The chat a story or post chain is sending to, and the deliveries of its
\* record to that chat so far.
ChatAt(tk) == tk.chats[tk.ci]
Delivered(l, tk) == l[tk.rec].to[ChatAt(tk)].ok

\* C21: in the story, post and initial-data fan-outs the text-only send to
\* a chat is awaited exactly when the rich-media send to that chat was
\* rejected, once: a delivered primary send is followed by no fallback, a
\* rejected one by the fallback to the same chat, the fallback is entered
\* from nowhere else and is not repeated, and a chat whose fallback was
\* delivered counts as delivered (its updateOne is awaited; it is among the
\* chats the initial notification has reached).
C21_FallbackOnceOnFailure ==
    [][/\ \A t \in Tasks :
            /\ (task[t].pc = "send" /\ task'[t] # task[t]) =>
                   \/ /\ Delivered(log', task[t]) = Delivered(log, task[t]) + 1
                      /\ task'[t].pc = "mark"
                   \/ /\ log' = log
                      /\ task'[t].pc = "fallback"
            /\ (task'[t].pc = "fallback" /\ task'[t] # task[t]) =>
                   /\ task[t].pc = "send"
                   /\ task'[t].ci = task[t].ci
                   /\ task'[t].rec = task[t].rec
            /\ (task[t].pc = "fallback" /\ task'[t] # task[t]) =>
                   /\ task'[t].pc # "fallback"
                   /\ ((task'[t].pc = "mark") <=>
                          (Delivered(log', task[t]) = Delivered(log, task[t]) + 1))
                   /\ task'[t].pc = "mark" => task'[t].ci = task[t].ci
       /\ (prof.pc = "send" /\ prof' # prof) =>
              LET c == prof.chats[prof.ci]
                  rich == prof.notice = "new" /\ prof.currentData.userProfilePic # NULL
              IN  \/ c \in prof'.got /\ prof'.pc # "fallback"
                  \/ /\ c \notin prof'.got
                     /\ ((prof'.pc = "fallback") <=> rich)
                     /\ prof'.pc = "fallback" => prof'.ci = prof.ci
       /\ (prof'.pc = "fallback" /\ prof' # prof) =>
              /\ prof.pc = "send"
              /\ prof.chats[prof.ci] \notin prof.fell
       /\ (prof.pc = "fallback" /\ prof' # prof) => prof'.pc # "fallback"]_vars

\* C21, witness: an initial notification with a picture is over in which the
\* photo to the first chat was rejected and the text delivered in its
\* place, and the photo to the second chat was delivered with no fallback.
C21_Witness ==
    /\ prof.pc = "done"
    /\ prof.notice = "new"
    /\ prof.currentData.userProfilePic # NULL
    /\ prof.chats = <<"c1", "c2">>
    /\ prof.fell = {"c1"}
    /\ prof.got = {"c1", "c2"}
    /\ prof.tried = [c \in Chats |-> 1]

\* C24: when the first snapshot of an identity has been saved, the initial
\* notification is suppressed exactly when the check is not forced and the
\* identity was recorded as added less than the grace window before: a
\* forced check always goes on to notify, an unforced one within the window
\* ends without a notification, an unforced one after the window notifies;
\* and a suppressed check has sent nothing.
C24_GraceWindowSuppression ==
    /\ [](prof.suppressed =>
              /\ ~prof.force
              /\ prof.pc = "done"
              /\ prof.notice = NULL
              /\ \A c \in Chats : prof.tried[c] = 0)
    /\ [][(/\ prof.pc = "saveSnapshot"
           /\ prof'.pc # "saveSnapshot"
           /\ prof.previousData = NoSnapshot) =>
              LET T == _recentlyAddedAccounts[prof.user]
                  notifies == /\ prof'.pc = "subs"
                              /\ prof'.notice = "new"
                              /\ ~prof'.suppressed
              IN  /\ prof.force => notifies
                  /\ (~prof.force /\ T # 0 /\ now - T < 1) =>
                         (prof'.suppressed /\ prof'.pc = "done")
                  /\ (~prof.force /\ T # 0 /\ now - T >= 1) => notifies
                  /\ (~prof.force /\ T = 0) => notifies]_vars

\* C24, witness: the first snapshot of an identity was saved by an unforced
\* check an hour after the identity was recorded as added (the forced check
\* of the add having got no data): the initial notification was sent to the
\* subscribers and the entry of the identity is gone.
C24_Witness ==
    /\ prof.pc = "done"
    /\ ~prof.force
    /\ prof.saved
    /\ prof.previousData = NoSnapshot
    /\ prof.notice = "new"
    /\ prof.addedAt = 1
    /\ now = 2
    /\ _recentlyAddedAccounts[prof.user] = 0
    /\ \A c \in SubscribersOf(prof.user) : prof.tried[c] = 1

\* The fetch of the check gave no data: it failed, or the response had no
\* true status.
NoData(p) == p.outcome \in {"failed", "nostatus"}

IdleAdd ==
    [pc |-> "idle", user |-> NULL, at |-> 0, currentData |-> NoSnapshot,
     previousData |-> NoSnapshot, notice |-> NULL, chats |-> <<>>, ci |-> 0,
     registered |-> FALSE, fetched |-> FALSE, offered |-> {}]

AddsIdle ==
    /\ addFlows = [c \in Chats |-> IdleAdd]
    /\ initialSent = [c \in Chats |-> 0]

\* What no step of an addAccount call writes.
addsQuiet == <<rateVars, schedVars, detectVars, healthVars, throttleVars, now, activeStory, feed,
               storyHistory, postHistory, nextId, _lastPostCheck, task, rm,
               timerDue, commands, log, api, prof, checks, edits>>

\* /add arrives from the chat with a well-formed username (31-42): findOne
\* is awaited.
AddsCall(u, ch) ==
    /\ addFlows[ch].pc = "idle"
    /\ addFlows' = [addFlows EXCEPT ![ch] =
                       [IdleAdd EXCEPT !.pc = "findOne", !.user = u]]
    /\ UNCHANGED <<addsQuiet, monitoredUsers, followerHistory,
                   _recentlyAddedAccounts, initialSent>>

\* findOne returns (42-48): an existing subscription ends the call with a
\* message; otherwise the save of the subscription is awaited.
AddsFindReturn(ch) ==
    /\ addFlows[ch].pc = "findOne"
    /\ addFlows' = [addFlows EXCEPT ![ch].pc =
                       IF ch \in SubscribersOf(addFlows[ch].user)
                       THEN "done" ELSE "save"]
    /\ UNCHANGED <<addsQuiet, monitoredUsers, followerHistory,
                   _recentlyAddedAccounts, initialSent>>

\* The save returns (48-50): the subscription is stored and the
\* acknowledgement is awaited.
AddsSaveReturn(ch) ==
    /\ addFlows[ch].pc = "save"
    /\ monitoredUsers' = monitoredUsers \cup
                             {[username |-> addFlows[ch].user, chatId |-> ch]}
    /\ addFlows' = [addFlows EXCEPT ![ch].pc = "ack",
                                    ![ch].registered = TRUE]
    /\ UNCHANGED <<addsQuiet, followerHistory, _recentlyAddedAccounts,
                   initialSent>>

\* The acknowledgement returns (50-56): rejected, it ends the call; sent,
\* the time is noted and the forced check awaits its fetch.
AddsAckReturn(ch, ok) ==
    /\ addFlows[ch].pc = "ack"
    /\ IF ok
       THEN /\ _recentlyAddedAccounts' =
                   [_recentlyAddedAccounts EXCEPT ![addFlows[ch].user] = now]
            /\ addFlows' = [addFlows EXCEPT ![ch].pc = "fetch", ![ch].at = now]
       ELSE /\ addFlows' = [addFlows EXCEPT ![ch].pc = "done"]
            /\ UNCHANGED _recentlyAddedAccounts
    /\ UNCHANGED <<addsQuiet, monitoredUsers, followerHistory, initialSent>>

\* fetchProfileData returns (199-209): without data the check returns null
\* and the call goes on to the story of the identity (59); with data the
\* latest snapshot is looked up.
AddsFetchReturn(ch, outcome) ==
    /\ addFlows[ch].pc = "fetch"
    /\ LET f == addFlows[ch]
       IN  addFlows' = [addFlows EXCEPT ![ch] =
               IF outcome \in {"failed", "nostatus"}
               THEN [f EXCEPT !.pc = "story"]
               ELSE [f EXCEPT !.pc = "findPrevious", !.fetched = TRUE,
                              !.currentData =
                                  fetchProfileData(api[f.user], f.user,
                                                   outcome = "ok")]]
    /\ UNCHANGED <<addsQuiet, monitoredUsers, followerHistory,
                   _recentlyAddedAccounts, initialSent>>

\* The findOne of checkSingleAccount returns (209-215): with a snapshot of a
\* lower post count _checkNewPosts is awaited, otherwise the findOne of
\* _processProfileData.
AddsFindPreviousReturn(ch) ==
    /\ addFlows[ch].pc = "findPrevious"
    /\ LET f == addFlows[ch]
           previousData == LatestSnapshot(f.user)
       IN  addFlows' = [addFlows EXCEPT ![ch].pc =
               IF /\ previousData # NoSnapshot
                  /\ f.currentData.postsCount > previousData.postsCount
               THEN "posts" ELSE "findLatest"]
    /\ UNCHANGED <<addsQuiet, monitoredUsers, followerHistory,
                   _recentlyAddedAccounts, initialSent>>

\* _checkNewPosts has returned (212-215).
AddsPostsReturn(ch) ==
    /\ addFlows[ch].pc = "posts"
    /\ addFlows' = [addFlows EXCEPT ![ch].pc = "findLatest"]
    /\ UNCHANGED <<addsQuiet, monitoredUsers, followerHistory,
                   _recentlyAddedAccounts, initialSent>>

\* The findOne of _processProfileData returns (327-331): with a change the
\* save of the snapshot is awaited, without one the check returns.
AddsProcessFindReturn(ch) ==
    /\ addFlows[ch].pc = "findLatest"
    /\ LET f == addFlows[ch]
           previousData == LatestSnapshot(f.user)
           next == AfterDetect(_detectChanges(f.currentData, previousData))
       IN  addFlows' = [addFlows EXCEPT ![ch] =
               [@ EXCEPT !.previousData = previousData,
                         !.pc = IF next = "done" THEN "story" ELSE next]]
    /\ UNCHANGED <<addsQuiet, monitoredUsers, followerHistory,
                   _recentlyAddedAccounts, initialSent>>

\* The save of the snapshot returns (331-335): with a previous snapshot
\* _notifyChanges is called, without one _notifyNewAccount, the check being
\* forced; both await the list of the subscribers.
AddsSnapshotSaveReturn(ch) ==
    /\ addFlows[ch].pc = "saveSnapshot"
    /\ LET f == addFlows[ch]
       IN  /\ followerHistory' = [followerHistory EXCEPT
                                     ![f.user] = Append(@, f.currentData)]
           /\ addFlows' = [addFlows EXCEPT ![ch] =
                  IF f.previousData # NoSnapshot
                  THEN [@ EXCEPT !.pc = "subs", !.notice = "changes"]
                  ELSE IF _shouldSuppressNotification(f.user, TRUE)
                       THEN [@ EXCEPT !.pc = "story"]
                       ELSE [@ EXCEPT !.pc = "subs", !.notice = "new"]]
           /\ _recentlyAddedAccounts' =
                  IF f.previousData # NoSnapshot THEN _recentlyAddedAccounts
                  ELSE AfterSuppressCheck(f.user, TRUE)
    /\ UNCHANGED <<addsQuiet, monitoredUsers, initialSent>>

\* The for loop over uniqueChatIds at position i (347, 418): the send to the
\* chat is awaited; past the last chat the check returns and the call goes
\* on to the story of the identity (59).
AddsNextChat(f, i) ==
    IF i > Len(f.chats) THEN [f EXCEPT !.pc = "story"]
    ELSE [f EXCEPT !.pc = "send", !.ci = i,
                   !.offered = IF f.notice = "new" THEN @ \cup {f.chats[i]}
                               ELSE @]

\* MonitoredUser.find({username}) returns (341-342, 374-375).
AddsSubsReturn(ch) ==
    /\ addFlows[ch].pc = "subs"
    /\ LET f == addFlows[ch]
       IN  addFlows' = [addFlows EXCEPT ![ch] =
               AddsNextChat([f EXCEPT !.chats =
                                SeqOf(ChatOrder, SubscribersOf(f.user))], 1)]
    /\ UNCHANGED <<addsQuiet, monitoredUsers, followerHistory,
                   _recentlyAddedAccounts, initialSent>>

\* The initial-data notifications delivered, after one more to the chat at
\* which the call stands.
Receives(f) ==
    IF f.notice = "new" THEN [initialSent EXCEPT ![f.chats[f.ci]] = @ + 1]
    ELSE initialSent

\* The send to a chat returns: sendMessage of _notifyChanges (420) and of
\* _notifyNewAccount without a picture (361), sendPhoto with one (350).  A
\* rejected sendPhoto is followed by the text-only sendMessage (353-358);
\* any other rejection is caught by the loop body (367, 422).
AddsSendReturn(ch, ok) ==
    /\ addFlows[ch].pc = "send"
    /\ LET f == addFlows[ch]
       IN  /\ addFlows' = [addFlows EXCEPT ![ch] =
                  IF ok THEN AddsNextChat(f, f.ci + 1)
                  ELSE IF /\ f.notice = "new"
                          /\ f.currentData.userProfilePic # NULL
                       THEN [f EXCEPT !.pc = "fallback"]
                       ELSE AddsNextChat(f, f.ci + 1)]
           /\ initialSent' = IF ok THEN Receives(f) ELSE initialSent
    /\ UNCHANGED <<addsQuiet, monitoredUsers, followerHistory,
                   _recentlyAddedAccounts>>

\* The text-only sendMessage of _notifyNewAccount returns (355-358).
AddsFallbackReturn(ch, ok) ==
    /\ addFlows[ch].pc = "fallback"
    /\ LET f == addFlows[ch]
       IN  /\ addFlows' = [addFlows EXCEPT ![ch] = AddsNextChat(f, f.ci + 1)]
           /\ initialSent' = IF ok THEN Receives(f) ELSE initialSent
    /\ UNCHANGED <<addsQuiet, monitoredUsers, followerHistory,
                   _recentlyAddedAccounts>>

\* The /add commands of the chats, side by side.
NextAdds ==
    \/ Tick /\ UNCHANGED exceptLedger
    \/ \E u \in Users, ch \in Chats : AddsCall(u, ch)
    \/ \E ch \in Chats : AddsFindReturn(ch)
    \/ \E ch \in Chats : AddsSaveReturn(ch)
    \/ \E ch \in Chats, ok \in BOOLEAN : AddsAckReturn(ch, ok)
    \/ \E ch \in Chats, outcome \in Outcomes : AddsFetchReturn(ch, outcome)
    \/ \E ch \in Chats : AddsFindPreviousReturn(ch)
    \/ \E ch \in Chats : AddsPostsReturn(ch)
    \/ \E ch \in Chats : AddsProcessFindReturn(ch)
    \/ \E ch \in Chats : AddsSnapshotSaveReturn(ch)
    \/ \E ch \in Chats : AddsSubsReturn(ch)
    \/ \E ch \in Chats, ok \in BOOLEAN : AddsSendReturn(ch, ok)
    \/ \E ch \in Chats, ok \in BOOLEAN : AddsFallbackReturn(ch, ok)

\* Two chats have added the identity, which no chat tracked, in the same
\* hour, that is, within the window of each other.
AddedTogether ==
    \E c, d \in Chats :
        /\ c # d
        /\ addFlows[c].registered /\ addFlows[d].registered
        /\ addFlows[c].at # 0 /\ addFlows[c].at = addFlows[d].at

\* C25: when two chats have added the same identity, not tracked before,
\* within the window, no chat has received more than one initial-data
\* notification of the identity.
C25_NoDuplicateInitialData ==
    AddedTogether => \A c \in Chats : initialSent[c] <= 1

\* The forced check of the chat's addAccount call has returned.
CheckOverFor(c) == addFlows[c].pc = "story"

\* C26: when an addAccount call has saved the subscription of its chat, its
\* forced check has fetched the profile and the check has returned, the call
\* has attempted the initial-data notification to its chat.
C26_AdderGetsInitialData ==
    \A c \in Chats :
        (addFlows[c].registered /\ addFlows[c].fetched /\ CheckOverFor(c))
            => c \in addFlows[c].offered

(***************************************************************************)
(* The process: main() (part_000 24-102), Bot.initialize 28-53,            *)
(* Bot.gracefulShutdown 55-76, Bot.getHealthStatus 78-101 (Bot.js) and     *)
(* DatabaseService (part_002).                                             *)
(*                                                                         *)
(* main() awaits initialize(), which connects the database and awaits      *)
(* start(); only then are the routes, the server and the signal handlers   *)
(* set up, so that /health is answered, and stop() is called, only after   *)
(* start() has returned.  A failure of initialize() ends the process.      *)
(***************************************************************************)

\* The constructors (Bot.js 11, part_002 7) and main() awaiting connect().
BotInit ==
    /\ botPc = "connect"
    /\ botIsInitializing = TRUE
    /\ isConnected = FALSE
    /\ healthLog = {}

\* The process has not exited.
Alive == botPc # "exited"

\* A status that does not look at the monitor.
getHealthStatusOfDatabase ==
    IF botIsInitializing THEN "INITIALIZING"
    ELSE IF isConnected THEN "UP" ELSE "DOWN"

\* Bot.getHealthStatus, the status field (Bot.js 79-83).
getHealthStatus ==
    IF botIsInitializing THEN "INITIALIZING"
    ELSE IF isConnected /\ isRunning THEN "UP" ELSE "DOWN"

\* The status code of GET /health (part_000 52).
statusCode(status) == IF status = "UP" THEN 200 ELSE 503

\* mongoose.connect returns (part_002 18-22, Bot.js 32-46): connected, the
\* flag of the database is set, the listeners are set up, Bot clears its
\* initialization flag and start() is called; rejected, initialize() throws
\* and main() exits (part_000 33-36).
BotConnectReturn(ok) ==
    /\ botPc = "connect"
    /\ IF ok
       THEN /\ isConnected' = TRUE
            /\ botIsInitializing' = FALSE
            /\ botPc' = "start"
            /\ StartCall(CHOOSE s \in StartIds : TRUE)
       ELSE /\ botPc' = "exited"
            /\ UNCHANGED <<isConnected, botIsInitializing, schedVars>>
    /\ UNCHANGED healthLog

\* start() has returned (Bot.js 46-47, part_000 32, 38-62, 100-101): the
\* routes are set up, the server listens and the signal handlers are
\* registered.
BotServes ==
    /\ botPc = "start"
    /\ \A s \in StartIds : startPc[s] = "idle"
    /\ botPc' = "serving"
    /\ UNCHANGED <<botIsInitializing, isConnected, healthLog, schedVars>>

\* The events of the connection (part_002 46-60).
ConnectionEvent(e) ==
    /\ botPc \notin {"connect", "exited"}
    /\ isConnected' = (e = "reconnected")
    /\ isConnected' # isConnected
    /\ UNCHANGED <<botPc, botIsInitializing, healthLog, schedVars>>

\* GET /health is answered (part_000 43-54); after server.close() the open
\* connections are still served.
HealthRequest ==
    /\ botPc \in {"serving", "closing"}
    /\ healthLog' = healthLog \cup
                        {<<getHealthStatus, statusCode(getHealthStatus)>>}
    /\ UNCHANGED <<botPc, botIsInitializing, isConnected, schedVars>>

\* SIGTERM or SIGINT (part_000 65-74): server.close() is called.
Signal ==
    /\ botPc = "serving"
    /\ botPc' = "closing"
    /\ UNCHANGED <<botIsInitializing, isConnected, healthLog, schedVars>>

\* The server has closed (part_000 74-83, Bot.js 55-64): gracefulShutdown
\* calls stop(), which returns, and awaits the stop of the Telegram polling.
ServerClosed ==
    /\ botPc = "closing"
    /\ StopCall
    /\ botPc' = "telegram"
    /\ UNCHANGED <<botIsInitializing, isConnected, healthLog>>

\* telegramService.stop() returns (Bot.js 64-68, part_002 30-36): disconnect
\* is called, which returns at once when not connected; a rejection ends the
\* process (part_000 84-87).
TelegramStopReturn(ok) ==
    /\ botPc = "telegram"
    /\ botPc' = IF ok /\ isConnected THEN "disconnect" ELSE "exited"
    /\ UNCHANGED <<botIsInitializing, isConnected, healthLog, schedVars>>

\* mongoose.disconnect returns (part_002 37-43, part_000 82-87): the flag is
\* cleared unless it rejected, and the process exits.
DisconnectReturn(ok) ==
    /\ botPc = "disconnect"
    /\ isConnected' = IF ok THEN FALSE ELSE isConnected
    /\ botPc' = "exited"
    /\ UNCHANGED <<botIsInitializing, healthLog, schedVars>>

\* The shutdown takes more than its 20 s (part_000 94-97).
ForcedExit ==
    /\ botPc \in {"closing", "telegram", "disconnect"}
    /\ botPc' = "exited"
    /\ UNCHANGED <<botIsInitializing, isConnected, healthLog, schedVars>>

\* The process: the scheduler is started by initialize() and stopped by
\* gracefulShutdown() only.
NextHealth ==
    \/ \E ok \in BOOLEAN : BotConnectReturn(ok) /\ UNCHANGED exceptHealth
    \/ BotServes /\ UNCHANGED exceptHealth
    \/ \E e \in {"error", "disconnected", "reconnected"} :
           ConnectionEvent(e) /\ UNCHANGED exceptHealth
    \/ HealthRequest /\ UNCHANGED exceptHealth
    \/ Signal /\ UNCHANGED exceptHealth
    \/ ServerClosed /\ UNCHANGED exceptHealth
    \/ \E ok \in BOOLEAN : TelegramStopReturn(ok) /\ UNCHANGED exceptHealth
    \/ \E ok \in BOOLEAN : DisconnectReturn(ok) /\ UNCHANGED exceptHealth
    \/ ForcedExit /\ UNCHANGED exceptHealth
    \/ Alive /\ StoreFlips /\ UNCHANGED exceptSched
    \/ \E s \in StartIds : Alive /\ StartProbeReturn(s) /\ UNCHANGED exceptSched
    \/ \E s \in StartIds : Alive /\ StartAfterProfile(s) /\ UNCHANGED exceptSched
    \/ \E s \in StartIds : Alive /\ StartAfterStory(s) /\ UNCHANGED exceptSched
    \/ \E s \in StartIds : Alive /\ StartAfterPost(s) /\ UNCHANGED exceptSched
    \/ \E t \in TimerIds : Alive /\ ProfileTimerFires(t) /\ UNCHANGED exceptSched
    \/ \E t \in TimerIds : Alive /\ MediaTimerFires(t) /\ UNCHANGED exceptSched
    \/ \E c \in BagToSet(cycles) : Alive /\ EnumReturn(c) /\ UNCHANGED exceptSched
    \/ \E c \in BagToSet(cycles), threw \in BOOLEAN :
           Alive /\ CheckReturn(c, threw) /\ UNCHANGED exceptSched
    \/ \E c \in BagToSet(cycles) : Alive /\ DelayReturn(c) /\ UNCHANGED exceptSched

C33_NoCheckInFlightAtDisconnect ==
    botPc = "disconnect" => \A c \in BagToSet(cycles) : c.pc # "check"

\* The two snapshots are equal in every field that _detectChanges compares
\* (434-440).
SameCompared(a, b) ==
    /\ a.followersCount = b.followersCount
    /\ a.followingCount = b.followingCount
    /\ a.postsCount = b.postsCount
    /\ a.isVerified = b.isVerified
    /\ a.isPrivate = b.isPrivate
    /\ a.userFullname = b.userFullname
    /\ a.userProfilePicHash = b.userProfilePicHash

\* C34: of the snapshots persisted of an identity, no two consecutive ones
\* are equal in all compared fields.
C34_ConsecutiveSnapshotsDiffer ==
    \A u \in Users : \A i \in 1..(Len(followerHistory[u]) - 1) :
        ~SameCompared(followerHistory[u][i], followerHistory[u][i + 1])

\* The chat is subscribed to the identity.
Subscribed(u, c) == [username |-> u, chatId |-> c] \in monitoredUsers

\* The list holds no chat twice.
NoRepeat(chats) ==
    \A i, j \in 1..Len(chats) : chats[i] = chats[j] => i = j

\* The step resolves the subscribers of a fan-out, from pc "subs", and goes
\* on to the first send: the list it has taken holds subscribers of the
\* identity only, each once.
ResolvesToSubscribers(p, q) ==
    (p.pc = "subs" /\ q.pc = "send") =>
        /\ NoRepeat(q.chats)
        /\ \A i \in 1..Len(q.chats) : Subscribed(p.user, q.chats[i])
        /\ q.ci \in 1..Len(q.chats)

\* The step goes from one target of a fan-out to the next send of the same
\* fan-out: the list of the lookup is kept and the position moves forward.
MovesForward(p, q, same) ==
    (p.pc \in {"send", "fallback", "mark"} /\ q.pc = "send" /\ q # p /\ same) =>
        /\ q.chats = p.chats
        /\ q.ci \in (p.ci + 1)..Len(p.chats)

\* C35: the sends of a fan-out (_notifyStory, _notifyPost, _notifyChanges,
\* _notifyNewAccount) go to the chats that were subscribed to the identity
\* when the fan-out looked the subscribers up, to each of them at most once:
\* a chat whose subscription was removed before the lookup is not in the
\* list and is sent nothing.
C35_OnlySubscribersOncePerFanOut ==
    [][/\ \A t \in Tasks :
              /\ ResolvesToSubscribers(task[t], task'[t])
              /\ MovesForward(task[t], task'[t], task'[t].rec = task[t].rec)
       /\ ResolvesToSubscribers(prof, prof')
       /\ MovesForward(prof, prof', TRUE)]_vars

\* C35, witness: both chats were subscribed, the subscription of c1 has been
\* removed, and a fan-out of the story or post loop that looked the
\* subscribers up afterwards has sent to c2 and is over with nothing sent
\* to c1.
C35_Witness ==
    /\ monitoredUsers = {[username |-> "alpha", chatId |-> "c2"]}
    /\ rm.pc = "idle"
    /\ \E t \in LoopTasks, id \in Ids :
           /\ task[t].pc = "delay"
           /\ log[id].event # <<>>
           /\ log[id].to["c2"].ok = 1
           /\ log[id].to["c1"] = NoLog

\* C36: a check of an identity whose initial notification was suppressed
\* when its first snapshot was saved, called once the window has passed and
\* given data by its fetch, ends having called the initial notification.
C36_SuppressedInitialDataSentLater ==
    [][(/\ prof.pc # "done" /\ prof'.pc = "done"
        /\ prof'.fetched
        /\ prof.user \in prof.owed
        /\ _recentlyAddedAccounts[prof.user] # 0
        /\ prof.began - _recentlyAddedAccounts[prof.user] >= 1)
           => prof'.notice = "new"]_vars

\* The notification of a profile check was called or a send of it was tried.
Notified(p) == p.notice # NULL \/ \E c \in Chats : p.tried[c] > 0

\* C37: the change or initial-data notification of a check is called in the
\* step in which the save of its snapshot returns with the snapshot stored,
\* and sends are tried only after it; a check whose save rejected has
\* called no notification and tried no send.
C37_NotifyOnlyAfterPersisted ==
    [][/\ (~Notified(prof) /\ Notified(prof')) =>
              /\ prof.pc = "saveSnapshot"
              /\ prof'.saved
              /\ followerHistory'[prof.user] =
                     Append(followerHistory[prof.user], prof.currentData)
       /\ Notified(prof') =>
              /\ prof'.saved
              /\ prof'.outcome # "rejected"
              /\ followerHistory'[prof'.user] # <<>>
              /\ followerHistory'[prof'.user][Len(followerHistory'[prof'.user])]
                     = prof'.currentData
       /\ prof'.outcome = "rejected" =>
              /\ prof'.pc = "done"
              /\ ~prof'.saved
              /\ followerHistory' = followerHistory]_vars

\* C37, witness: a check that fetched data differing from the stored
\* snapshot, with subscribers to notify, has ended on a rejected save with
\* the store as it was.
C37_Witness ==
    /\ prof.pc = "done"
    /\ prof.outcome = "rejected"
    /\ prof.fetched
    /\ SubscribersOf(prof.user) # {}
    /\ followerHistory[prof.user] # <<>>
    /\ prof.previousData = LatestSnapshot(prof.user)
    /\ prof.changes.hasChanged
    /\ ~Notified(prof)

\* 300000 ms (226), in the limiter's units of 10 s.
fiveMinutes == 30

\* The bound of SpecThrottle's clock.
MaxThrottleClock == 60

\* No chain is at _checkNewPosts and fetchAllPosts was never invoked.
ThrottleIdle ==
    /\ chain = [c \in {"profileLoop", "postLoop"} |-> "idle"]
    /\ postFetches = <<>>

(***************************************************************************)
(* The post throttle: monitor.js 219-241, in front of the rate limiter     *)
(* (705-715), called by the post loop (691) and by a profile check (212).  *)
(***************************************************************************)

\* The chains that reach _checkNewPosts: the profile loop through
\* checkSingleAccount (212) and the post loop (691).
PostCallers == {"profileLoop", "postLoop"}

\* The identity the two chains check.
ThrottledUser == "alpha"

throttleQuiet == <<schedVars, profileVars, detectVars, addsVars, healthVars,
                   now, monitoredUsers, activeStory, feed, storyHistory,
                   postHistory, followerHistory, nextId, task, rm, timerDue,
                   commands, log>>

\* checkSingleAccount is called by the profile loop (199): the fetch of the
\* profile enters the rate limiter.
ThrottleProfileFetch ==
    /\ chain["profileLoop"] = "idle"
    /\ RateEnter("profileLoop")
    /\ chain' = [chain EXCEPT !["profileLoop"] = "profile"]
    /\ UNCHANGED <<_lastPostCheck, postFetches>>

\* _checkNewPosts up to its first await (221-231): within five minutes of
\* the recorded time it returns; otherwise it records the time and enters
\* the rate limiter with fetchAllPosts, which is invoked at once when the
\* limiter grants at once.
_checkNewPosts(c, u) ==
    IF clock - _lastPostCheck[u] < fiveMinutes
    THEN /\ chain' = [chain EXCEPT ![c] = "after"]
         /\ UNCHANGED <<rateVars, _lastPostCheck, postFetches>>
    ELSE /\ _lastPostCheck' = [_lastPostCheck EXCEPT ![u] = clock]
         /\ RateEnter(c)
         /\ chain' = [chain EXCEPT ![c] = "posts"]
         /\ postFetches' = IF rlPc'[c] = "inFn"
                           THEN Append(postFetches, clock) ELSE postFetches

\* The findOne of checkSingleAccount returns (209-213): when the post count
\* has grown _checkNewPosts is called, otherwise _processProfileData.
ThrottleFindPreviousReturn(grew) ==
    /\ chain["profileLoop"] = "findPrevious"
    /\ IF grew THEN _checkNewPosts("profileLoop", ThrottledUser)
       ELSE /\ chain' = [chain EXCEPT !["profileLoop"] = "after"]
            /\ UNCHANGED <<rateVars, _lastPostCheck, postFetches>>

\* checkPosts reaches the identity (689-691).
ThrottlePostLoop ==
    /\ chain["postLoop"] = "idle"
    /\ _checkNewPosts("postLoop", ThrottledUser)

\* The limiter's _delay returns for a waiting caller (710-714): fn is
\* invoked, which is fetchAllPosts for a caller inside _checkNewPosts.
ThrottleWake(c) ==
    /\ RateWake(c)
    /\ postFetches' = IF chain[c] = "posts"
                      THEN Append(postFetches, clock) ELSE postFetches
    /\ UNCHANGED <<chain, _lastPostCheck>>

\* The fetch settles, with or without data: after the profile the findOne
\* of 209 is awaited; after the posts _checkNewPosts goes on to its end
\* (235-240).
ThrottleFnDone(c) ==
    /\ RateFnDone(c)
    /\ chain' = [chain EXCEPT ![c] = IF @ = "profile" THEN "findPrevious"
                                     ELSE "after"]
    /\ UNCHANGED <<_lastPostCheck, postFetches>>

\* What follows _checkNewPosts in the caller has returned: the sleep of the
\* post loop (692), _processProfileData in the profile check (215).
ThrottleChainReturn(c) ==
    /\ chain[c] = "after"
    /\ chain' = [chain EXCEPT ![c] = "idle"]
    /\ UNCHANGED <<rateVars, _lastPostCheck, postFetches>>

\* Time passes.  A timer that is due fires before the clock moves on.
ThrottleTick ==
    /\ clock < MaxThrottleClock
    /\ \A c \in Callers : rlPc[c] = "waiting" => clock < rlWake[c]
    /\ clock' = clock + 1
    /\ UNCHANGED <<_lastRequestTime, rlPc, rlWake, grants, external,
                   chain, _lastPostCheck, postFetches>>

NextThrottle ==
    \/ ThrottleProfileFetch /\ UNCHANGED throttleQuiet
    \/ \E grew \in BOOLEAN : ThrottleFindPreviousReturn(grew) /\ UNCHANGED throttleQuiet
    \/ ThrottlePostLoop /\ UNCHANGED throttleQuiet
    \/ \E c \in PostCallers : ThrottleWake(c) /\ UNCHANGED throttleQuiet
    \/ \E c \in PostCallers : ThrottleFnDone(c) /\ UNCHANGED throttleQuiet
    \/ \E c \in PostCallers : ThrottleChainReturn(c) /\ UNCHANGED throttleQuiet
    \/ ThrottleTick /\ UNCHANGED throttleQuiet

\* C38: any two invocations of fetchAllPosts for the identity, by the post
\* loop or by a profile check, are at least five minutes apart.
C38_PostFetchesFiveMinutesApart ==
    \A i, j \in 1..Len(postFetches) :
        i < j => postFetches[j] - postFetches[i] >= fiveMinutes

\* The step leaves the three history collections as they are.
HistoryKept ==
    /\ storyHistory' = storyHistory
    /\ postHistory' = postHistory
    /\ followerHistory' = followerHistory

Init ==
    /\ RateInit /\ SchedInit /\ LedgerInit /\ ProfileInit /\ DetectIdle
    /\ AddsIdle /\ BotInit /\ ThrottleIdle

\* The profile checks start on a store that holds no history.
InitProfile ==
    /\ RateInit /\ SchedInit /\ LedgerStart(FALSE) /\ ProfileInit
    /\ DetectIdle /\ AddsIdle /\ BotInit /\ ThrottleIdle

\* The detector starts with its two arguments.
InitDetect ==
    /\ RateInit /\ SchedInit /\ LedgerInit /\ ProfileInit /\ DetectInit
    /\ AddsIdle /\ BotInit /\ ThrottleIdle

\* The /add commands arrive for an identity that no chat tracks yet, or that
\* one chat tracks, with the snapshot its add has left; the provider serves
\* the profile of that snapshot or one that has changed since.
InitAdds ==
    /\ RateInit /\ SchedInit /\ DetectIdle /\ AddsIdle /\ BotInit /\ ThrottleIdle
    /\ LedgerFrom({{}, {[username |-> "alpha", chatId |-> "c1"]}}, TRUE)
    /\ api \in [Users -> {FirstApi, Edited(FirstApi, "follow"),
                          Edited(FirstApi, "post")}]
    /\ prof = IdleProf
    /\ _recentlyAddedAccounts = [u \in Users |-> 0]
    /\ checks = 0
    /\ edits = 0

SpecRate == Init /\ [][NextRate]_vars

SpecSched == Init /\ [][NextSched]_vars

Spec == Init /\ [][NextLedger]_vars

SpecAdd == Init /\ [][NextAdd]_vars

SpecProfile == InitProfile /\ [][NextProfile]_vars

SpecPersist == InitProfile /\ [][NextPersist]_vars

SpecPosts == Init /\ [][NextPosts]_vars

SpecDetect == InitDetect /\ [][NextDetect]_vars

SpecAdds == InitAdds /\ [][NextAdds]_vars

SpecHealth == Init /\ [][NextHealth]_vars

\* The service has run for longer than the throttle's window: the clock
\* stands at fiveMinutes, no request and no post check was made, and one
\* chat tracks the identity.
InitThrottle ==
    /\ clock = fiveMinutes
    /\ _lastRequestTime = 0
    /\ rlPc = [c \in Callers |-> "idle"]
    /\ rlWake = [c \in Callers |-> 0]
    /\ grants = <<>>
    /\ external = {}
    /\ SchedInit /\ ProfileInit /\ DetectIdle /\ AddsIdle /\ BotInit
    /\ ThrottleIdle
    /\ LedgerFrom({{[username |-> "alpha", chatId |-> "c1"]}}, TRUE)

SpecThrottle == InitThrottle /\ [][NextThrottle]_vars

=============================================================================
